---- MODULE Spec2Model ----
(***************************************************************************)
(* PR-Reviewer: teams, users, pull requests and the reviewer assignment,   *)
(* reassignment and mass-deactivation logic of internal/usecase, on top of *)
(* the two storage backends of the repository:                             *)
(*   "memory"   MemoryRepository   + a pass-through transaction manager    *)
(*   "postgres" PostgresRepository + GormTransactionManager                *)
(***************************************************************************)
EXTENDS Integers, Sequences, FiniteSets, TLC

\* ---------------------------------------------------------------- bounds
\* the ids that exist at all
NumUsers == 4
NumTeams == 2
NumPRs == 2
\* Spec, SpecWide, SpecFault, SpecConc, SpecNames: pull requests 1..NumSoloPRs
NumSoloPRs == 1
\* Spec, SpecWide, SpecFault, SpecMulti, SpecDeactivateRace, SpecLive: the
\* users 1..NumAuthors are named as authors in the CreatePR requests
NumAuthors == 1
\* the pull request names that exist at all, and those of the
\* specifications other than SpecNames
NumNames == 2
NumSoloNames == 1
\* the instants time.Now() returns at all, and those of the specifications
\* other than SpecClock
NumTimes == 2
NumSoloTimes == 1
\* SpecClock: every instant and pull request, users 1..NumClockUsers, teams
\* 1..NumClockTeams
NumClockUsers == 2
NumClockTeams == 1
\* SpecAuth: users 1..NumAuthUsers, teams 1..NumAuthTeams
NumAuthUsers == 1
NumAuthTeams == 1
\* SpecQuery: every team name asked for, users 1..NumQueryUsers, teams
\* 1..NumQueryTeams created
NumQueryUsers == 3
NumQueryTeams == 1
\* SpecNames: every name, users 1..NumNameUsers, teams 1..NumNameTeams
NumNameUsers == 3
NumNameTeams == 1
\* the longest user_ids list of a deactivation request
MaxBatch == 2
\* Spec: several teams, users 1..NumCrossUsers
NumCrossUsers == 3
\* SpecWide: every user, teams 1..NumWideTeams
NumWideTeams == 1
\* SpecFault: users 1..NumFaultUsers, teams 1..NumFaultTeams
NumFaultUsers == 3
NumFaultTeams == 1
\* SpecMulti: every pull request, one team, users 1..NumMultiUsers
NumMultiUsers == 3
NumMultiTeams == 1
\* SpecConc: the number of calls running at the same time
NumProcs == 2
\* SpecCreateRace: users 1..NumRaceUsers in one team
NumRaceUsers == 3

UserIDs == 1..NumUsers
TeamNames == 1..NumTeams
PRIDs == 1..NumPRs
ProcIDs == 1..NumProcs
PRNames == 1..NumNames
Times == 1..NumTimes
Backends == {"memory", "postgres"}

VARIABLES
    backend,      \* which repository/transaction manager pair the services got
    teams,        \* MemoryRepository.teams / table teams
    users,        \* MemoryRepository.users / table users
    prs,          \* MemoryRepository.prs / table pull_requests
    prReviewers,  \* MemoryRepository.prReviewers / table pr_reviewers
    last,         \* the last service call: its arguments, error and result
    procs,        \* the calls in flight, one goroutine each: position and locals
    http          \* StaticTokenAuth's tokens and the last request the router got

vars == <<backend, teams, users, prs, prReviewers, last, procs, http>>

\* ---------------------------------------------------------------- helpers
Range(s) == {s[i] : i \in 1..Len(s)}

\* every order in which a Go map range / an unordered SELECT may enumerate S
Orderings(S) ==
    {s \in [1..Cardinality(S) -> S] : \A i, j \in 1..Cardinality(S) : s[i] = s[j] => i = j}

SeqsUpTo(S, n) == UNION {[1..k -> S] : k \in 0..n}

Min(a, b) == IF a <= b THEN a ELSE b

Count(s, x) == Cardinality({i \in 1..Len(s) : s[i] = x})

\* strings.TrimPrefix over strings kept as sequences of pieces
TrimPrefix(s, prefix) ==
    IF Len(s) >= Len(prefix) /\ SubSeq(s, 1, Len(prefix)) = prefix
    THEN SubSeq(s, Len(prefix) + 1, Len(s))
    ELSE s

\* ---------------------------------------------------------------- domain
PRStatusOpen == "OPEN"
PRStatusMerged == "MERGED"

NoUser == [exists |-> FALSE, TeamName |-> 0, IsActive |-> FALSE]
\* MergedAt 0 is the nil pointer
NoPR ==
    [exists |-> FALSE, PullRequestName |-> 0, AuthorID |-> 0, Status |-> "",
     MergedAt |-> 0]

ErrTeamAlreadyExists == "ErrTeamAlreadyExists"
ErrPRAlreadyExists == "ErrPRAlreadyExists"
ErrPRMerged == "ErrPRMerged"
ErrReviewerNotAssigned == "ErrReviewerNotAssigned"
ErrNoActiveCandidate == "ErrNoActiveCandidate"
ErrTeamNotFound == "ErrTeamNotFound"
ErrUserNotFound == "ErrUserNotFound"
ErrPRNotFound == "ErrPRNotFound"
ErrBadRequest == "ErrBadRequest"
\* an error of the database itself (connection, statement, constraint)
ErrDatabase == "ErrDatabase"

\* the stored state as one value
DB == [teams |-> teams, users |-> users, prs |-> prs, prReviewers |-> prReviewers]

\* ---------------------------------------------------------------- auth
\* the literal the middleware strips from the Authorization header
Bearer == <<"Bearer ">>

\* auth.admin_token and auth.user_token as LoadConfig defaults them
DefaultAdminToken == <<"admin-secret-token">>
DefaultUserToken == <<"user-secret-token">>

\* no request served yet; Authorization <<>> is the missing header
NoRequest(adminToken, userToken) ==
    [adminToken |-> adminToken, userToken |-> userToken, path |-> "",
     Authorization |-> <<>>, status |-> ""]

ValidateAdminToken(a, token) == token # <<>> /\ token = a.adminToken

ValidateUserToken(a, token) ==
    token # <<>> /\ (token = a.adminToken \/ token = a.userToken)

\* TRUE when the middleware calls next.ServeHTTP
AuthMiddleware(a, requireAdmin, authHeader) ==
    IF authHeader = <<>> THEN FALSE
    ELSE LET token == TrimPrefix(authHeader, Bearer)
         IN  IF requireAdmin THEN ValidateAdminToken(a, token)
             ELSE ValidateUserToken(a, token)

\* ---------------------------------------------------------------- transaction managers
\* mutant: the writes of a failed fn are kept
GormTransactionManager_WithinTransaction_NoRollback(pre, post, err) == post

\* gorm's db.Transaction: commit when fn returns nil, roll back otherwise
GormTransactionManager_WithinTransaction(pre, post, err) ==
    IF err # "" THEN pre ELSE post

\* the tests' manager: fn(ctx), nothing more
NoOpTransactionManager_WithinTransaction(pre, post, err) == post

WithinTransaction(b, pre, post, err) ==
    IF b = "postgres"
    THEN GormTransactionManager_WithinTransaction(pre, post, err)
    ELSE NoOpTransactionManager_WithinTransaction(pre, post, err)

\* ---------------------------------------------------------------- repository
\* mutant: the lookup never finds the team
TeamExists_Never(db, teamName) == FALSE

TeamExists(db, teamName) == teamName \in db.teams

UserExists(db, userID) == db.users[userID].exists

\* mutant: the lookup never finds the pull request
PRExists_Never(db, prID) == FALSE

PRExists(db, prID) == db.prs[prID].exists

\* CreateTeam: both backends store the team and then write every member
\* under its user id (map assignment / db.Save), whether or not it exists
Repo_CreateTeam(db, teamName, members) ==
    [db EXCEPT !.teams = @ \cup {teamName},
               !.users = [u \in UserIDs |->
                    IF u \in DOMAIN members
                    THEN [exists |-> TRUE, TeamName |-> teamName, IsActive |-> members[u]]
                    ELSE @[u]]]

\* mutant: the update has no condition on the user id
Repo_SetUserActive_EveryUser(db, userID, isActive) ==
    [db EXCEPT !.users = [u \in UserIDs |->
                    IF @[u].exists THEN [@[u] EXCEPT !.IsActive = isActive] ELSE @[u]]]

Repo_SetUserActive(db, userID, isActive) ==
    [db EXCEPT !.users[userID].IsActive = isActive]

\* mutant: is_active is not part of the query
GetActiveTeamMembers_AnyActivity(db, teamName, excludeUserID) ==
    {u \in UserIDs : /\ db.users[u].exists
                     /\ db.users[u].TeamName = teamName
                     /\ u # excludeUserID}

\* mutant: team_name is not part of the query
GetActiveTeamMembers_AnyTeam(db, teamName, excludeUserID) ==
    {u \in UserIDs : /\ db.users[u].exists
                     /\ db.users[u].IsActive
                     /\ u # excludeUserID}

\* mutant: the excluded user is returned as well
GetActiveTeamMembers_KeepsExcluded(db, teamName, excludeUserID) ==
    {u \in UserIDs : /\ db.users[u].exists
                     /\ db.users[u].TeamName = teamName
                     /\ db.users[u].IsActive}

\* the users a candidate query returns (as a set; the enumeration order is
\* drawn by the caller with Orderings)
GetActiveTeamMembers(db, teamName, excludeUserID) ==
    {u \in UserIDs : /\ db.users[u].exists
                     /\ db.users[u].TeamName = teamName
                     /\ db.users[u].IsActive
                     /\ u # excludeUserID}

\* mutant: the pull request is stored MERGED
Repo_CreatePR_StoresMerged(db, prID, prName, authorID, reviewers) ==
    [db EXCEPT !.prs[prID] = [exists |-> TRUE, PullRequestName |-> prName,
                              AuthorID |-> authorID, Status |-> PRStatusMerged,
                              MergedAt |-> 0],
               !.prReviewers[prID] = reviewers]

Repo_CreatePR(db, prID, prName, authorID, reviewers) ==
    [db EXCEPT !.prs[prID] = [exists |-> TRUE, PullRequestName |-> prName,
                              AuthorID |-> authorID, Status |-> PRStatusOpen,
                              MergedAt |-> 0],
               !.prReviewers[prID] = reviewers]

\* mutant: the update has no condition on the pull request id
Repo_MergePR_EveryPR(db, prID, now) ==
    [db EXCEPT !.prs = [p \in PRIDs |->
                    IF @[p].exists
                    THEN [@[p] EXCEPT !.Status = PRStatusMerged, !.MergedAt = now]
                    ELSE @[p]]]

\* now is the instant time.Now() returned
Repo_MergePR(db, prID, now) ==
    [db EXCEPT !.prs[prID].Status = PRStatusMerged, !.prs[prID].MergedAt = now]

\* the reviewer lists a read of prID may return: the slice as stored
\* (memory), the rows in any order (postgres, no ORDER BY)
GetPRReviewers(b, db, prID) ==
    IF b = "memory" THEN {db.prReviewers[prID]}
    ELSE Orderings(Range(db.prReviewers[prID]))

\* mutant: the author counts as assigned
IsReviewerAssigned_OrAuthor(db, prID, userID) ==
    userID \in Range(db.prReviewers[prID]) \cup {db.prs[prID].AuthorID}

IsReviewerAssigned(db, prID, userID) == userID \in Range(db.prReviewers[prID])

\* memory: append, no check. postgres: INSERT, the composite primary key
\* (pull_request_id, reviewer_id) rejects a second row: err is set
\* mutant: nothing is added
AddReviewer_Nothing(b, revs, userID) == [revs |-> revs, err |-> ""]

AddReviewer(b, revs, userID) ==
    IF b = "postgres" /\ userID \in Range(revs)
    THEN [revs |-> revs, err |-> ErrDatabase]
    ELSE [revs |-> Append(revs, userID), err |-> ""]

\* mutant: nothing is removed
RemoveReviewer_KeepsAll(b, revs, userID) == revs

\* memory: drop the first occurrence. postgres: DELETE every matching row
RemoveReviewer(b, revs, userID) ==
    IF b = "postgres"
    THEN SelectSeq(revs, LAMBDA r : r # userID)
    ELSE IF userID \in Range(revs)
         THEN LET i == CHOOSE k \in 1..Len(revs) :
                          revs[k] = userID /\ \A j \in 1..(k - 1) : revs[j] # userID
              IN  SubSeq(revs, 1, i - 1) \o SubSeq(revs, i + 1, Len(revs))
         ELSE revs

\* mutant: the update has no condition on the user id
DeactivateUsers_All(db, userIDs) ==
    [db EXCEPT !.users = [u \in UserIDs |->
                    IF @[u].exists THEN [@[u] EXCEPT !.IsActive = FALSE] ELSE @[u]]]

\* every id of the list that names a stored user gets IsActive = false
DeactivateUsers(db, userIDs) ==
    [db EXCEPT !.users = [u \in UserIDs |->
                    IF u \in Range(userIDs) /\ @[u].exists
                    THEN [@[u] EXCEPT !.IsActive = FALSE]
                    ELSE @[u]]]

\* mutant: the status of the pull request is not looked at
GetOpenPRsWithReviewers_AnyStatus(db, reviewerIDs) ==
    {p \in PRIDs : /\ db.prs[p].exists
                   /\ Range(db.prReviewers[p]) \cap Range(reviewerIDs) # {}}

\* the OPEN pull requests with at least one reviewer among reviewerIDs
GetOpenPRsWithReviewers(db, reviewerIDs) ==
    {p \in PRIDs : /\ db.prs[p].exists
                   /\ db.prs[p].Status = PRStatusOpen
                   /\ Range(db.prReviewers[p]) \cap Range(reviewerIDs) # {}}

\* mutant: a record without replacement is skipped, its old reviewer stays
ApplyReassignment_OnlyWithReplacement(b, db, r) ==
    IF r.NewReviewerID = 0 THEN db
    ELSE [db EXCEPT !.prReviewers[r.PullRequestID] =
              Append(SelectSeq(@, LAMBDA x : x # r.OldReviewerID), r.NewReviewerID)]

\* one record of BulkReassignReviewers
ApplyReassignment(b, db, r) ==
    LET revs == db.prReviewers[r.PullRequestID]
        kept == SelectSeq(revs, LAMBDA x : x # r.OldReviewerID)
        new  == IF r.NewReviewerID = 0 THEN kept
                ELSE IF b = "postgres" /\ r.NewReviewerID \in Range(kept) THEN kept
                ELSE Append(kept, r.NewReviewerID)
    IN  [db EXCEPT !.prReviewers[r.PullRequestID] = new]

\* the DELETE of one record alone (postgres, when the INSERT after it fails)
ApplyReassignmentDelete(db, r) ==
    [db EXCEPT !.prReviewers[r.PullRequestID] =
                    SelectSeq(@, LAMBDA x : x # r.OldReviewerID)]

RECURSIVE BulkReassignReviewers(_, _, _, _)
\* the first k records of reassignments, applied in order
BulkReassignReviewers(b, db, reassignments, k) ==
    IF k = 0 THEN db
    ELSE ApplyReassignment(b, BulkReassignReviewers(b, db, reassignments, k - 1),
                           reassignments[k])

\* ---------------------------------------------------------------- results
\* what a call hands back: the fields of the responses, and for
\* DeactivateTeamUsers the records it passed to BulkReassignReviewers
NoResult ==
    [AssignedReviewers |-> <<>>, ReplacedBy |-> 0, Status |-> "", MergedAt |-> 0,
     AuthorID |-> 0, IsActive |-> FALSE, UserTeamName |-> 0, Members |-> <<>>,
     TeamMembers |-> <<>>, PullRequests |-> <<>>,
     DeactivatedUsers |-> <<>>, ReassignedPRs |-> <<>>, Reassignments |-> <<>>]

\* the operation and the arguments of a call; UserIDs is the user_ids list
\* of a deactivation request, PullRequestName the name of a CreatePR request,
\* Now the instant at which MergePR was served, ReqIsActive the is_active of
\* a SetUserActive request
Call(op, teamName, userID, prID) ==
    [op |-> op, TeamName |-> teamName, UserID |-> userID, PullRequestID |-> prID,
     UserIDs |-> <<>>, PullRequestName |-> 0, Now |-> 0, ReqIsActive |-> FALSE,
     Repeats |-> FALSE]

NoCall == Call("", 0, 0, 0) @@ [err |-> "", failed |-> ""] @@ NoResult

\* a goroutine that serves no request: the request and the locals of the
\* service calls unset; mu is how the goroutine holds r.mu of
\* MemoryRepository ("", "RLock" or "Lock")
IdleProc ==
    [pc |-> "idle", op |-> "", PullRequestID |-> 0, OldUserID |-> 0, pr |-> NoPR,
     reviewers |-> <<>>, TeamName |-> 0, newReviewer |-> 0, err |-> "",
     AssignedReviewers |-> <<>>, AuthorID |-> 0, UserIDs |-> <<>>,
     validUserIDs |-> <<>>, prs |-> <<>>, reviewersMap |-> <<>>,
     reassignments |-> <<>>, IsActive |-> FALSE, Members |-> <<>>, mu |-> ""]

\* the end of every service call: the transaction manager decides what of
\* post is kept; the result is nil unless the call returned no error
Finish(call, post, err, failed, res) ==
    LET d == WithinTransaction(backend, DB, post, err)
    IN  /\ teams' = d.teams
        /\ users' = d.users
        /\ prs' = d.prs
        /\ prReviewers' = d.prReviewers
        /\ last' = call @@ [err |-> err, failed |-> failed]
                        @@ (IF err = "" THEN res ELSE NoResult)
        /\ UNCHANGED <<backend, procs>>

\* ---------------------------------------------------------------- TeamService.CreateTeam
\* request bodies over the users U: the members of a new team (user id ->
\* is_active) and the user_ids of a deactivation request (without repetition,
\* in ascending order: repetition and order only show in deactivated_users)
MemberLists(U) == UNION {[S -> BOOLEAN] : S \in SUBSET U}

BatchLists(U) ==
    {s \in SeqsUpTo(U, MaxBatch) : \A i, j \in 1..Len(s) : i < j => s[i] < s[j]}

CreateTeam(teamName, members, fail) ==
    LET call == Call("CreateTeam", teamName, 0, 0)
    IN  /\ fail \in {"", "TeamExists", "CreateTeam"}
        /\
          IF fail = "TeamExists"
          THEN Finish(call, DB, ErrDatabase, fail, NoResult)
          ELSE IF TeamExists(DB, teamName)
          THEN Finish(call, DB, ErrTeamAlreadyExists, "", NoResult)
          ELSE IF fail = "CreateTeam"
          THEN \* the team row is written, a member's Save fails
               Finish(call, [DB EXCEPT !.teams = @ \cup {teamName}], ErrDatabase, fail, NoResult)
          ELSE \* the response repeats the members of the request
               Finish(call, Repo_CreateTeam(DB, teamName, members), "", "",
                      [NoResult EXCEPT !.TeamMembers = members])

\* ---------------------------------------------------------------- TeamService.GetTeam
\* the users whose team is teamName (MemoryRepository.GetTeam scans users,
\* PostgresRepository.GetTeam preloads Members), with their flags
Repo_GetTeamMembers(db, teamName) ==
    [u \in {v \in UserIDs : db.users[v].exists /\ db.users[v].TeamName = teamName} |->
        db.users[u].IsActive]

GetTeam(teamName) ==
    LET call == Call("GetTeam", teamName, 0, 0)
    IN  IF ~TeamExists(DB, teamName)
        THEN Finish(call, DB, ErrTeamNotFound, "", NoResult)
        ELSE Finish(call, DB, "", "",
                    [NoResult EXCEPT !.TeamMembers = Repo_GetTeamMembers(DB, teamName)])

\* ---------------------------------------------------------------- UserService.GetUserReviews
\* the pull requests that list userID among their reviewers
Repo_GetUserReviews(db, userID) ==
    {p \in PRIDs : db.prs[p].exists /\ userID \in Range(db.prReviewers[p])}

GetUserReviews(userID) ==
    LET call == Call("GetUserReviews", 0, userID, 0)
    IN  IF ~UserExists(DB, userID)
        THEN Finish(call, DB, ErrUserNotFound, "", NoResult)
        ELSE \E found \in Orderings(Repo_GetUserReviews(DB, userID)) :
               Finish(call, DB, "", "", [NoResult EXCEPT !.PullRequests = found])

\* ---------------------------------------------------------------- UserService.SetUserActive
SetUserActive(userID, isActive, fail) ==
    LET call == [Call("SetUserActive", 0, userID, 0) EXCEPT !.ReqIsActive = isActive]
    IN  /\ fail \in {"", "GetUser", "SetUserActive"}
        /\
          IF fail = "GetUser"
          THEN Finish(call, DB, ErrDatabase, fail, NoResult)
          ELSE IF ~UserExists(DB, userID)
          THEN Finish(call, DB, ErrUserNotFound, "", NoResult)
          ELSE IF fail = "SetUserActive"
          THEN Finish(call, DB, ErrDatabase, fail, NoResult)
          ELSE \* the user is read again after the update
               LET set == Repo_SetUserActive(DB, userID, isActive)
               IN  Finish(call, set, "", "",
                          [NoResult EXCEPT !.IsActive = set.users[userID].IsActive,
                                           !.UserTeamName = set.users[userID].TeamName])

\* ---------------------------------------------------------------- PRService.CreatePR
\* mutant: every slot is filled from the first index of the permutation
selectReviewers_RepeatsFirst(candidates, n, perm) ==
    IF Len(candidates) = 0 THEN <<>>
    ELSE IF Len(candidates) <= n THEN candidates
    ELSE [i \in 1..n |-> candidates[perm[1]]]

\* perm is the permutation rand.Perm drew
\* mutant: every candidate is taken
selectReviewers_NoLimit(candidates, n, perm) == candidates

selectReviewers(candidates, n, perm) ==
    IF Len(candidates) = 0 THEN <<>>
    ELSE IF Len(candidates) <= n THEN candidates
    ELSE [i \in 1..n |-> candidates[perm[i]]]

CreatePR(prID, prName, authorID, fail) ==
    LET call == [Call("CreatePR", 0, authorID, prID) EXCEPT !.PullRequestName = prName]
    IN  /\ fail \in {"", "PRExists", "CreatePR"}
        /\
          IF fail = "PRExists"
          THEN Finish(call, DB, ErrDatabase, fail, NoResult)
          ELSE IF PRExists(DB, prID)
          THEN Finish(call, DB, ErrPRAlreadyExists, "", NoResult)
          ELSE IF ~UserExists(DB, authorID)
          THEN Finish(call, DB, ErrUserNotFound, "", NoResult)
          ELSE \E candidates \in Orderings(GetActiveTeamMembers(DB, users[authorID].TeamName, authorID)) :
               \E perm \in Orderings(1..Len(candidates)) :
                 LET reviewerIDs == selectReviewers(candidates, 2, perm)
                 IN  IF fail = "CreatePR"
                     THEN \* the PR row is written, a reviewer row is not
                          Finish(call, Repo_CreatePR(DB, prID, prName, authorID, <<>>),
                                 ErrDatabase, fail, NoResult)
                     ELSE Finish(call, Repo_CreatePR(DB, prID, prName, authorID, reviewerIDs), "", "",
                                 [NoResult EXCEPT !.AssignedReviewers = reviewerIDs,
                                                  !.Status = PRStatusOpen,
                                                  !.AuthorID = authorID])

\* ---------------------------------------------------------------- PRService.MergePR
\* mutant: a MERGED pull request is merged again
MergePR_AlreadyMerged_Never(pr) == FALSE

\* the early return of MergePR
MergePR_AlreadyMerged(pr) == pr.Status = PRStatusMerged

MergePR(prID, now, fail) ==
    LET call == [Call("MergePR", 0, 0, prID) EXCEPT !.Now = now]
    IN  /\ fail \in {"", "GetPRWithReviewers", "MergePR", "GetPRWithReviewers2"}
        /\
          IF fail = "GetPRWithReviewers"
          THEN Finish(call, DB, ErrDatabase, fail, NoResult)
          ELSE IF ~PRExists(DB, prID)
          THEN Finish(call, DB, ErrPRNotFound, "", NoResult)
          ELSE IF MergePR_AlreadyMerged(prs[prID])
          THEN \E reviewers \in GetPRReviewers(backend, DB, prID) :
                 Finish(call, DB, "", "",
                        [NoResult EXCEPT !.AssignedReviewers = reviewers,
                                         !.Status = prs[prID].Status,
                                         !.MergedAt = prs[prID].MergedAt,
                                         !.AuthorID = prs[prID].AuthorID])
          ELSE IF fail = "MergePR"
          THEN Finish(call, DB, ErrDatabase, fail, NoResult)
          ELSE LET merged == Repo_MergePR(DB, prID, now)
               IN  IF fail = "GetPRWithReviewers2"
                   THEN Finish(call, merged, ErrDatabase, fail, NoResult)
                   ELSE \E reviewers \in GetPRReviewers(backend, merged, prID) :
                          Finish(call, merged, "", "",
                                 [NoResult EXCEPT !.AssignedReviewers = reviewers,
                                                  !.Status = merged.prs[prID].Status,
                                                  !.MergedAt = merged.prs[prID].MergedAt,
                                                  !.AuthorID = merged.prs[prID].AuthorID])

\* ---------------------------------------------------------------- PRService.ReassignReviewer
\* mutant: the author is not skipped
filterAvailableReviewers_KeepsAuthor(candidates, pr, reviewers) ==
    SelectSeq(candidates, LAMBDA c : c \notin Range(reviewers))

\* mutant: the reviewers already assigned are not skipped
filterAvailableReviewers_KeepsAssigned(candidates, pr, reviewers) ==
    SelectSeq(candidates, LAMBDA c : c # pr.AuthorID)

filterAvailableReviewers(candidates, pr, reviewers) ==
    SelectSeq(candidates, LAMBDA c : c # pr.AuthorID /\ c \notin Range(reviewers))

\* mutant: the status is not checked
ReassignPreconditions_NoMergedCheck(db, prID, oldUserID) ==
    IF ~PRExists(db, prID) THEN ErrPRNotFound
    ELSE IF ~IsReviewerAssigned(db, prID, oldUserID) THEN ErrReviewerNotAssigned
    ELSE ""

\* mutant: the assignment is checked before the status
ReassignPreconditions_AssignedFirst(db, prID, oldUserID) ==
    IF ~PRExists(db, prID) THEN ErrPRNotFound
    ELSE IF ~IsReviewerAssigned(db, prID, oldUserID) THEN ErrReviewerNotAssigned
    ELSE IF db.prs[prID].Status = PRStatusMerged THEN ErrPRMerged
    ELSE ""

\* the checks before the candidate query, in the order of the code: the
\* error returned, "" when all pass
ReassignPreconditions(db, prID, oldUserID) ==
    IF ~PRExists(db, prID) THEN ErrPRNotFound
    ELSE IF db.prs[prID].Status = PRStatusMerged THEN ErrPRMerged
    ELSE IF ~IsReviewerAssigned(db, prID, oldUserID) THEN ErrReviewerNotAssigned
    ELSE ""

ReassignReviewer(prID, oldUserID, fail) ==
    LET call == Call("ReassignReviewer", 0, oldUserID, prID)
    IN  /\ fail \in {"", "GetPRWithReviewers", "RemoveReviewer", "AddReviewer",
                     "GetPRWithReviewers2"}
        /\
          IF fail = "GetPRWithReviewers"
          THEN Finish(call, DB, ErrDatabase, fail, NoResult)
          ELSE IF ReassignPreconditions(DB, prID, oldUserID) # ""
          THEN Finish(call, DB, ReassignPreconditions(DB, prID, oldUserID), "", NoResult)
          ELSE IF ~UserExists(DB, oldUserID)
          THEN Finish(call, DB, ErrUserNotFound, "", NoResult)
          ELSE \E reviewers \in GetPRReviewers(backend, DB, prID) :
               \E candidates \in Orderings(GetActiveTeamMembers(DB, users[oldUserID].TeamName, oldUserID)) :
                 LET available == filterAvailableReviewers(candidates, prs[prID], reviewers)
                 IN  IF Len(available) = 0
                     THEN Finish(call, DB, ErrNoActiveCandidate, "", NoResult)
                     ELSE \E n \in 1..Len(available) :   \* rand.Intn
                       LET newReviewer == available[n]
                           removed == [DB EXCEPT !.prReviewers[prID] =
                                            RemoveReviewer(backend, @, oldUserID)]
                           add == AddReviewer(backend, removed.prReviewers[prID], newReviewer)
                           added == [removed EXCEPT !.prReviewers[prID] = add.revs]
                       IN  IF fail = "RemoveReviewer"
                           THEN Finish(call, DB, ErrDatabase, fail, NoResult)
                           ELSE IF fail = "AddReviewer" \/ add.err # ""
                           THEN Finish(call, removed, ErrDatabase, "AddReviewer", NoResult)
                           ELSE IF fail = "GetPRWithReviewers2"
                           THEN Finish(call, added, ErrDatabase, fail, NoResult)
                           ELSE \E revs \in GetPRReviewers(backend, added, prID) :
                                  Finish(call, added, "", "",
                                         [NoResult EXCEPT !.AssignedReviewers = revs,
                                                          !.ReplacedBy = newReviewer,
                                                          !.Status = added.prs[prID].Status,
                                                          !.AuthorID = added.prs[prID].AuthorID])

\* ---------------------------------------------------------------- TeamService.DeactivateTeamUsers
\* mutant: the team of the user is not compared
filterValidTeamUsers_AnyTeam(db, teamName, userIDs) ==
    SelectSeq(userIDs, LAMBDA u : UserExists(db, u))

filterValidTeamUsers(db, teamName, userIDs) ==
    SelectSeq(userIDs, LAMBDA u : UserExists(db, u) /\ db.users[u].TeamName = teamName)

createUserIDSet(userIDs) == Range(userIDs)

\* mutant: the users of the batch are not skipped
isValidReplacementCandidate_IgnoresBatch(candidate, authorID, assignedReviewers, deactivatingSet) ==
    /\ candidate # authorID
    /\ candidate \notin assignedReviewers

isValidReplacementCandidate(candidate, authorID, assignedReviewers, deactivatingSet) ==
    /\ candidate # authorID
    /\ candidate \notin assignedReviewers
    /\ candidate \notin deactivatingSet

\* mutant: only the first candidate of the enumeration is looked at
findReviewerReplacement_FirstOnly(candidates, authorID, assignedReviewers, deactivatingSet) ==
    IF Len(candidates) = 0 THEN 0
    ELSE IF isValidReplacementCandidate(candidates[1], authorID, assignedReviewers,
                                        deactivatingSet)
    THEN candidates[1] ELSE 0

\* mutant: the last valid candidate of the enumeration is taken
findReviewerReplacement_LastValid(candidates, authorID, assignedReviewers, deactivatingSet) ==
    LET valid == SelectSeq(candidates, LAMBDA c :
                     isValidReplacementCandidate(c, authorID, assignedReviewers, deactivatingSet))
    IN  IF Len(valid) = 0 THEN 0 ELSE valid[Len(valid)]

\* candidates is the enumeration GetActiveTeamMembers returned; 0 is ""
findReviewerReplacement(candidates, authorID, assignedReviewers, deactivatingSet) ==
    LET valid == SelectSeq(candidates, LAMBDA c :
                     isValidReplacementCandidate(c, authorID, assignedReviewers, deactivatingSet))
    IN  IF Len(valid) = 0 THEN 0 ELSE valid[1]

\* the reads of the planning phase whose error is logged and not returned
PlanningReads == {"Plan.GetUser.author", "Plan.GetUser.reviewer", "Plan.GetActiveTeamMembers"}

\* the second loop of processPRReassignments over the reviewers being
\* removed: every list of records it can produce, one candidate enumeration
\* drawn per removed reviewer; a lookup of the reviewer or a candidate query
\* that fails gives the replacement ""
RECURSIVE ProcessRemoved(_, _, _, _, _, _)
ProcessRemoved(db, prID, removed, assignedReviewers, deactivatingSet, fail) ==
    IF removed = <<>> THEN {<<>>}
    ELSE LET reviewerID == Head(removed)
             \* the slices the candidate query may return, none when it is
             \* not reached
             enumerations ==
                 IF \/ ~UserExists(db, reviewerID)
                    \/ fail \in {"Plan.GetUser.reviewer", "Plan.GetActiveTeamMembers"}
                 THEN {<<>>}
                 ELSE Orderings(GetActiveTeamMembers(
                          db, db.users[reviewerID].TeamName, reviewerID))
         IN  UNION {LET r == findReviewerReplacement(c, db.prs[prID].AuthorID,
                                                     assignedReviewers, deactivatingSet)
                    IN  {<<[PullRequestID |-> prID, OldReviewerID |-> reviewerID,
                            NewReviewerID |-> r, Candidates |-> c]>> \o rest :
                           rest \in ProcessRemoved(db, prID, Tail(removed),
                                        IF r = 0 THEN assignedReviewers
                                        ELSE assignedReviewers \cup {r},
                                        deactivatingSet, fail)} :
                    c \in enumerations}

NewIDs(reassignments) ==
    LET chosen == SelectSeq(reassignments, LAMBDA r : r.NewReviewerID # 0)
    IN  [i \in 1..Len(chosen) |-> chosen[i].NewReviewerID]

\* mutant: the summary lists the replacements only, not the staying reviewers
processPRReassignments_NewOnly(db, prID, currentReviewers, deactivatingSet, fail) ==
    LET staying == SelectSeq(currentReviewers, LAMBDA r : r \notin deactivatingSet)
        removed == SelectSeq(currentReviewers, LAMBDA r : r \in deactivatingSet)
    IN  {[reassignments |-> rs,
          summary |-> [PullRequestID |-> prID, OldReviewers |-> removed,
                       NewReviewers |-> NewIDs(rs)]] :
           rs \in ProcessRemoved(db, prID, removed, Range(staying), deactivatingSet, fail)}

\* a lookup of the author that fails skips the pull request
processPRReassignments(db, prID, currentReviewers, deactivatingSet, fail) ==
    IF ~UserExists(db, db.prs[prID].AuthorID) \/ fail = "Plan.GetUser.author"
    THEN {[reassignments |-> <<>>,
           summary |-> [PullRequestID |-> 0, OldReviewers |-> <<>>, NewReviewers |-> <<>>]]}
    ELSE LET staying == SelectSeq(currentReviewers, LAMBDA r : r \notin deactivatingSet)
             removed == SelectSeq(currentReviewers, LAMBDA r : r \in deactivatingSet)
         IN  {[reassignments |-> rs,
               summary |-> [PullRequestID |-> prID, OldReviewers |-> removed,
                            NewReviewers |-> staying \o NewIDs(rs)]] :
                rs \in ProcessRemoved(db, prID, removed, Range(staying), deactivatingSet,
                                      fail)}

RECURSIVE planReviewerReassignments(_, _, _, _, _)
planReviewerReassignments(db, prOrder, reviewersMap, deactivatingSet, fail) ==
    IF prOrder = <<>> THEN {[reassignments |-> <<>>, summaries |-> <<>>]}
    ELSE LET prID == Head(prOrder)
         IN  UNION {{[reassignments |-> o.reassignments \o rest.reassignments,
                      summaries |-> (IF Len(o.summary.OldReviewers) > 0
                                     THEN <<o.summary>> ELSE <<>>) \o rest.summaries] :
                       rest \in planReviewerReassignments(db, Tail(prOrder), reviewersMap,
                                                          deactivatingSet, fail)} :
                    o \in processPRReassignments(db, prID, reviewersMap[prID], deactivatingSet,
                                                fail)}

\* the reviewersMap GetOpenPRsWithReviewers may return for the affected PRs
ReviewersMaps(b, db, affected) ==
    IF b = "memory" THEN {[p \in affected |-> db.prReviewers[p]]}
    ELSE {f \in [affected -> UNION {GetPRReviewers(b, db, p) : p \in affected}] :
            \A p \in affected : f[p] \in GetPRReviewers(b, db, p)}

\* postgres: the UPDATE that touches no row is reported as ErrUserNotFound
\* mutant: RowsAffected counts the rows whose flag changed
DeactivateUsersErr_ChangedRows(b, db, userIDs) ==
    IF b = "postgres" /\ ~\E u \in Range(userIDs) : UserExists(db, u) /\ db.users[u].IsActive
    THEN ErrUserNotFound ELSE ""

DeactivateUsersErr(b, db, userIDs) ==
    IF b = "postgres" /\ ~\E u \in Range(userIDs) : UserExists(db, u)
    THEN ErrUserNotFound ELSE ""

\* applyDeactivationChanges and the response, for one plan
applyDeactivationChanges(call, validUserIDs, plan, fail) ==
    LET n == Len(plan.reassignments)
        swapped == BulkReassignReviewers(backend, DB, plan.reassignments, n)
    IN  IF fail = "BulkReassignReviewers"
        THEN \* the DELETE of record k fails, the records before it are applied
             \E k \in 1..n :
                Finish(call, BulkReassignReviewers(backend, DB, plan.reassignments, k - 1),
                       ErrDatabase, fail, NoResult)
        ELSE IF fail = "BulkReassignReviewers.Create"
        THEN \* the INSERT of record k fails after its DELETE
             \E k \in 1..n :
                /\ plan.reassignments[k].NewReviewerID # 0
                /\ Finish(call,
                          ApplyReassignmentDelete(
                              BulkReassignReviewers(backend, DB, plan.reassignments, k - 1),
                              plan.reassignments[k]),
                          ErrDatabase, "BulkReassignReviewers", NoResult)
        ELSE IF fail = "DeactivateUsers"
        THEN Finish(call, swapped, ErrDatabase, fail, NoResult)
        ELSE IF DeactivateUsersErr(backend, swapped, validUserIDs) # ""
        THEN Finish(call, swapped, DeactivateUsersErr(backend, swapped, validUserIDs),
                    "DeactivateUsers", NoResult)
        ELSE \* fail is "" or a planning read, whose error was logged only
             Finish(call, DeactivateUsers(swapped, validUserIDs), "", fail,
                    [NoResult EXCEPT !.DeactivatedUsers = validUserIDs,
                                     !.ReassignedPRs = plan.summaries,
                                     !.Reassignments = plan.reassignments])

\* whether the planning phase makes a read of the kind that is to fail: the
\* author is looked up for every pull request, the reviewer for every removed
\* reviewer of a pull request whose author was found, and the candidates are
\* asked for when the reviewer was found
PlanningReadMade(db, prOrder, reviewersMap, deactivatingSet, fail) ==
    IF fail = "Plan.GetUser.author" THEN prOrder # <<>>
    ELSE \E i \in DOMAIN prOrder :
            /\ UserExists(db, db.prs[prOrder[i]].AuthorID)
            /\ \E r \in Range(reviewersMap[prOrder[i]]) :
                   /\ r \in deactivatingSet
                   /\ fail = "Plan.GetActiveTeamMembers" => UserExists(db, r)

DeactivateTeamUsers(teamName, userIDs, fail) ==
    LET \* Repeats: the request is the one that was served just before, with
        \* success
        call == [Call("DeactivateTeamUsers", teamName, 0, 0) EXCEPT
                     !.UserIDs = userIDs,
                     !.Repeats = /\ last.op = "DeactivateTeamUsers"
                                 /\ last.err = ""
                                 /\ last.TeamName = teamName
                                 /\ last.UserIDs = userIDs]
        validUserIDs == filterValidTeamUsers(DB, teamName, userIDs)
    IN  /\ fail \in {"", "GetTeam", "GetOpenPRsWithReviewers", "BulkReassignReviewers",
                     "BulkReassignReviewers.Create", "DeactivateUsers"} \cup PlanningReads
        /\ IF fail = "GetTeam"
           THEN Finish(call, DB, ErrDatabase, fail, NoResult)
           ELSE IF ~TeamExists(DB, teamName)
           THEN Finish(call, DB, ErrTeamNotFound, "", NoResult)
           ELSE IF Len(validUserIDs) = 0
           THEN Finish(call, DB, ErrBadRequest, "", NoResult)
           ELSE IF fail = "GetOpenPRsWithReviewers"
           THEN Finish(call, DB, ErrDatabase, fail, NoResult)
           ELSE \E prOrder \in Orderings(GetOpenPRsWithReviewers(DB, validUserIDs)) :
                \E reviewersMap \in ReviewersMaps(backend, DB, Range(prOrder)) :
                \E plan \in planReviewerReassignments(DB, prOrder, reviewersMap,
                                                      createUserIDSet(validUserIDs), fail) :
                  /\ fail \in PlanningReads =>
                         PlanningReadMade(DB, prOrder, reviewersMap,
                                          createUserIDSet(validUserIDs), fail)
                  /\ applyDeactivationChanges(call, validUserIDs, plan, fail)

\* ---------------------------------------------------------------- specification
Init ==
    /\ backend \in Backends
    /\ teams = {}
    /\ users = [u \in UserIDs |-> NoUser]
    /\ prs = [p \in PRIDs |-> NoPR]
    /\ prReviewers = [p \in PRIDs |-> <<>>]
    /\ last = NoCall
    /\ procs = [i \in ProcIDs |-> IdleProc]
    /\ http = NoRequest(DefaultAdminToken, DefaultUserToken)

\* the statements of an operation that may fail: none unless the database
\* is faulty
Faults(faulty, sites) == IF faulty THEN {""} \cup sites ELSE {""}

\* one service call with users of U, authors of A, teams of T, pull requests
\* of P and pull request names of N, at an instant of C; memberLists[t] are
\* the member lists a CreateTeam request for team t may carry
Calls(U, A, T, P, N, C, memberLists, batchLists, faulty) ==
    \/ \E teamName \in T :
       \E members \in memberLists[teamName],
          fail \in Faults(faulty, {"TeamExists", "CreateTeam"}) :
         \* the member list is not read when the team name is taken
         /\ (TeamExists(DB, teamName) \/ fail = "TeamExists") => members = <<>>
         /\ CreateTeam(teamName, members, fail)
         /\ UNCHANGED http
    \/ \E userID \in U, isActive \in BOOLEAN,
          fail \in Faults(faulty, {"GetUser", "SetUserActive"}) :
         SetUserActive(userID, isActive, fail) /\ UNCHANGED http
    \/ \E prID \in P, prName \in N, authorID \in A,
          fail \in Faults(faulty, {"PRExists", "CreatePR"}) :
         CreatePR(prID, prName, authorID, fail) /\ UNCHANGED http
    \/ \E prID \in P, now \in C,
          fail \in Faults(faulty, {"GetPRWithReviewers", "MergePR", "GetPRWithReviewers2"}) :
         MergePR(prID, now, fail) /\ UNCHANGED http
    \/ \E prID \in P, oldUserID \in U,
          fail \in Faults(faulty, {"GetPRWithReviewers", "RemoveReviewer", "AddReviewer",
                                   "GetPRWithReviewers2"}) :
         ReassignReviewer(prID, oldUserID, fail) /\ UNCHANGED http
    \/ \E teamName \in T, userIDs \in batchLists,
          fail \in Faults(faulty, {"GetTeam", "GetOpenPRsWithReviewers",
                                   "BulkReassignReviewers", "BulkReassignReviewers.Create",
                                   "DeactivateUsers"} \cup PlanningReads) :
         \* the user_ids are not read when the team lookup fails
         /\ fail = "GetTeam" => userIDs = <<>>
         /\ DeactivateTeamUsers(teamName, userIDs, fail)
         /\ UNCHANGED http

SoloPRs == 1..NumSoloPRs
Authors == 1..NumAuthors
SoloNames == 1..NumSoloNames
SoloTimes == 1..NumSoloTimes

CrossUsers == 1..NumCrossUsers
\* the last user may be named in the member list of any team, the others in
\* that of the first team
CrossMemberLists ==
    [teamName \in TeamNames |->
        {members \in MemberLists(CrossUsers) :
            teamName # 1 => DOMAIN members \subseteq {NumCrossUsers}}]
CrossBatchLists == BatchLists(CrossUsers)

\* users of several teams, the database answering every statement
Next == Calls(CrossUsers, Authors, TeamNames, SoloPRs, SoloNames, SoloTimes, CrossMemberLists, CrossBatchLists, FALSE)

Spec == Init /\ [][Next]_vars

WideTeams == 1..NumWideTeams
\* the team is created with all of the users, or with none
WideMemberLists ==
    {members \in MemberLists(UserIDs) : DOMAIN members \in {{}, UserIDs}}
WideBatchLists == BatchLists(UserIDs)

\* one team large enough for a PR to have an author, two reviewers and a
\* further candidate
NextWide == Calls(UserIDs, Authors, WideTeams, SoloPRs, SoloNames, SoloTimes, [t \in TeamNames |-> WideMemberLists], WideBatchLists, FALSE)

SpecWide == Init /\ [][NextWide]_vars

FaultUsers == 1..NumFaultUsers
FaultTeams == 1..NumFaultTeams
FaultMemberLists == MemberLists(FaultUsers)
FaultBatchLists == BatchLists(FaultUsers)

\* the production wiring (cmd/app/main.go): PostgresRepository and
\* GormTransactionManager, where any statement may fail with a database error
InitFault ==
    /\ Init
    /\ backend = "postgres"

NextFault == Calls(FaultUsers, Authors, FaultTeams, SoloPRs, SoloNames, SoloTimes, [t \in TeamNames |-> FaultMemberLists], FaultBatchLists, TRUE)

SpecFault == InitFault /\ [][NextFault]_vars

MultiUsers == 1..NumMultiUsers
MultiTeams == 1..NumMultiTeams
\* the team is created with all of its users, or with none
MultiMemberLists ==
    {members \in MemberLists(MultiUsers) : DOMAIN members \in {{}, MultiUsers}}
MultiBatchLists == BatchLists(MultiUsers)

\* several pull requests over the users of one team, in the production
\* wiring
InitMulti ==
    /\ Init
    /\ backend = "postgres"

NextMulti == Calls(MultiUsers, Authors, MultiTeams, PRIDs, SoloNames, SoloTimes, [t \in TeamNames |-> MultiMemberLists], MultiBatchLists, FALSE)

SpecMulti == InitMulti /\ [][NextMulti]_vars

NameUsers == 1..NumNameUsers
NameTeams == 1..NumNameTeams
NameMemberLists == MemberLists(NameUsers)
NameBatchLists == BatchLists(NameUsers)

\* requests that differ in the name they give the pull request
NextNames == Calls(NameUsers, NameUsers, NameTeams, SoloPRs, PRNames, SoloTimes, [t \in TeamNames |-> NameMemberLists], NameBatchLists, FALSE)

SpecNames == Init /\ [][NextNames]_vars

\* ---------------------------------------------------------------- Repository.GetActiveTeamMembers
\* the candidate query asked on its own: the slice it returns is one
\* enumeration of the users it selects, the error is nil, nothing is written
Query_GetActiveTeamMembers(teamName, excludeUserID) ==
    \E members \in Orderings(GetActiveTeamMembers(DB, teamName, excludeUserID)) :
        Finish(Call("GetActiveTeamMembers", teamName, excludeUserID, 0), DB, "", "",
               [NoResult EXCEPT !.Members = members])

QueryUsers == 1..NumQueryUsers
QueryTeams == 1..NumQueryTeams
QueryMemberLists == MemberLists(QueryUsers)
QueryBatchLists == BatchLists(QueryUsers)

\* the service calls, and the candidate query for any team name and any
\* excluded id, the empty one (0) included
NextQuery ==
    \/ Calls(QueryUsers, QueryUsers, QueryTeams, SoloPRs, SoloNames, SoloTimes, [t \in TeamNames |-> QueryMemberLists],
             QueryBatchLists, FALSE)
    \/ \E teamName \in TeamNames, excludeUserID \in QueryUsers \cup {0} :
         Query_GetActiveTeamMembers(teamName, excludeUserID) /\ UNCHANGED http

SpecQuery == Init /\ [][NextQuery]_vars

\* ---------------------------------------------------------------- http.Server
\* the tokens a deployment may be configured with and the Authorization
\* headers a client may send: none, a token as it is (the integration tests
\* send it so), a token after "Bearer ", and "Bearer " alone
Tokens == {<<"a">>, <<"u">>, Bearer \o <<"a">>}
Headers == {<<>>, Bearer} \cup Tokens \cup {Bearer \o t : t \in Tokens}

AdminPaths ==
    {"/team/deactivateUsers", "/users/setIsActive", "/pullRequest/create",
     "/pullRequest/merge", "/pullRequest/reassign"}
UserPaths == {"/team/get", "/users/getReview"}

\* a route behind AuthMiddleware: the handler runs when the middleware lets
\* the request through, respondUnauthorized answers otherwise
Route(requireAdmin, path, authHeader, handler) ==
    IF AuthMiddleware(http, requireAdmin, authHeader)
    THEN /\ handler
         /\ http' = [http EXCEPT !.path = path, !.Authorization = authHeader,
                                  !.status = "served"]
    ELSE /\ http' = [http EXCEPT !.path = path, !.Authorization = authHeader,
                                  !.status = "401"]
         /\ UNCHANGED <<backend, teams, users, prs, prReviewers, last, procs>>

AuthUsers == 1..NumAuthUsers
AuthTeams == 1..NumAuthTeams
AuthMemberLists == MemberLists(AuthUsers)
AuthBatchLists == BatchLists(AuthUsers)

\* the test server: MemoryRepository, NoOpTransactionManager, any pair of
\* tokens
InitAuth ==
    /\ backend = "memory"
    /\ teams = {}
    /\ users = [u \in UserIDs |-> NoUser]
    /\ prs = [p \in PRIDs |-> NoPR]
    /\ prReviewers = [p \in PRIDs |-> <<>>]
    /\ last = NoCall
    /\ procs = [i \in ProcIDs |-> IdleProc]
    /\ \E adminToken \in Tokens, userToken \in Tokens :
         http = NoRequest(adminToken, userToken)

\* setupRouter: /team/add without middleware, the other routes behind it
NextAuth ==
    \E authHeader \in Headers :
        \/ \E teamName \in AuthTeams, members \in AuthMemberLists :
             /\ TeamExists(DB, teamName) => members = <<>>
             /\ CreateTeam(teamName, members, "")
             /\ http' = [http EXCEPT !.path = "/team/add",
                                      !.Authorization = authHeader,
                                      !.status = "served"]
        \/ \E teamName \in AuthTeams :
             Route(FALSE, "/team/get", authHeader, GetTeam(teamName))
        \/ \E teamName \in AuthTeams, userIDs \in AuthBatchLists :
             Route(TRUE, "/team/deactivateUsers", authHeader,
                   DeactivateTeamUsers(teamName, userIDs, ""))
        \/ \E userID \in AuthUsers, isActive \in BOOLEAN :
             Route(TRUE, "/users/setIsActive", authHeader,
                   SetUserActive(userID, isActive, ""))
        \/ \E userID \in AuthUsers :
             Route(FALSE, "/users/getReview", authHeader, GetUserReviews(userID))
        \/ \E prID \in SoloPRs, prName \in SoloNames, authorID \in AuthUsers :
             Route(TRUE, "/pullRequest/create", authHeader,
                   CreatePR(prID, prName, authorID, ""))
        \/ \E prID \in SoloPRs, now \in SoloTimes :
             Route(TRUE, "/pullRequest/merge", authHeader, MergePR(prID, now, ""))
        \/ \E prID \in SoloPRs, oldUserID \in AuthUsers :
             Route(TRUE, "/pullRequest/reassign", authHeader,
                   ReassignReviewer(prID, oldUserID, ""))

SpecAuth == InitAuth /\ [][NextAuth]_vars

ClockUsers == 1..NumClockUsers
ClockTeams == 1..NumClockTeams
ClockMemberLists == MemberLists(ClockUsers)
ClockBatchLists == BatchLists(ClockUsers)

\* several pull requests, merged at different instants
NextClock ==
    Calls(ClockUsers, ClockUsers, ClockTeams, PRIDs, SoloNames, Times, [t \in TeamNames |-> ClockMemberLists],
          ClockBatchLists, FALSE)

SpecClock == Init /\ [][NextClock]_vars

\* ---------------------------------------------------------------- concurrent calls
\* ReassignReviewer served by several goroutines over MemoryRepository under
\* NoOpTransactionManager: fn runs unprotected, every repository method
\* holds r.mu for its own duration only, so one step is one repository call
\* together with the local computation of the service that follows it.
Returned(proc, err, revs) ==
    [proc EXCEPT !.pc = "done", !.err = err, !.AssignedReviewers = revs]

\* a repository method that returned with r.mu held
Unlocked_Never(proc) == proc

\* defer r.mu.Unlock() / r.mu.RUnlock() of every MemoryRepository method
Unlocked(proc) == [proc EXCEPT !.mu = ""]

Step(i, proc, revs) ==
    /\ procs' = [procs EXCEPT ![i] = Unlocked(proc)]
    /\ prReviewers' = [prReviewers EXCEPT ![proc.PullRequestID] = revs]
    /\ UNCHANGED <<backend, teams, users, prs, last, http>>

\* GetPRWithReviewers and the status check
ReassignReviewer_GetPRWithReviewers(i, prID, oldUserID) ==
    LET me == [procs[i] EXCEPT !.op = "ReassignReviewer", !.PullRequestID = prID,
                               !.OldUserID = oldUserID]
    IN  /\ procs[i].pc = "idle"
        /\ Step(i,
                IF ~PRExists(DB, prID) THEN Returned(me, ErrPRNotFound, <<>>)
                ELSE IF prs[prID].Status = PRStatusMerged
                THEN Returned(me, ErrPRMerged, <<>>)
                ELSE [me EXCEPT !.pc = "IsReviewerAssigned", !.pr = prs[prID],
                                !.reviewers = prReviewers[prID]],
                prReviewers[prID])

ReassignReviewer_IsReviewerAssigned(i) ==
    LET me == procs[i]
    IN  /\ me.pc = "IsReviewerAssigned"
        /\ Step(i,
                IF ~IsReviewerAssigned(DB, me.PullRequestID, me.OldUserID)
                THEN Returned(me, ErrReviewerNotAssigned, <<>>)
                ELSE [me EXCEPT !.pc = "GetUser"],
                prReviewers[me.PullRequestID])

ReassignReviewer_GetUser(i) ==
    LET me == procs[i]
    IN  /\ me.pc = "GetUser"
        /\ Step(i,
                IF ~UserExists(DB, me.OldUserID)
                THEN Returned(me, ErrUserNotFound, <<>>)
                ELSE [me EXCEPT !.pc = "GetActiveTeamMembers",
                                !.TeamName = users[me.OldUserID].TeamName],
                prReviewers[me.PullRequestID])

\* GetActiveTeamMembers, filterAvailableReviewers over the reviewers read
\* by the first step, and the draw of the replacement
ReassignReviewer_GetActiveTeamMembers(i) ==
    LET me == procs[i]
    IN  /\ me.pc = "GetActiveTeamMembers"
        /\ \E candidates \in Orderings(GetActiveTeamMembers(DB, me.TeamName, me.OldUserID)) :
             LET available == filterAvailableReviewers(candidates, me.pr, me.reviewers)
             IN  IF Len(available) = 0
                 THEN Step(i, Returned(me, ErrNoActiveCandidate, <<>>),
                           prReviewers[me.PullRequestID])
                 ELSE \E n \in 1..Len(available) :
                        Step(i, [me EXCEPT !.pc = "RemoveReviewer",
                                           !.newReviewer = available[n]],
                             prReviewers[me.PullRequestID])

ReassignReviewer_RemoveReviewer(i) ==
    LET me == procs[i]
    IN  /\ me.pc = "RemoveReviewer"
        /\ Step(i, [me EXCEPT !.pc = "AddReviewer"],
                RemoveReviewer("memory", prReviewers[me.PullRequestID], me.OldUserID))

ReassignReviewer_AddReviewer(i) ==
    LET me == procs[i]
    IN  /\ me.pc = "AddReviewer"
        /\ Step(i, [me EXCEPT !.pc = "GetPRWithReviewers"],
                AddReviewer("memory", prReviewers[me.PullRequestID], me.newReviewer).revs)

\* the second GetPRWithReviewers and the response
ReassignReviewer_Return(i) ==
    LET me == procs[i]
    IN  /\ me.pc = "GetPRWithReviewers"
        /\ Step(i, Returned(me, "", prReviewers[me.PullRequestID]),
                prReviewers[me.PullRequestID])

\* the stores two concurrent calls may find: one team of all users, active
\* or not, and one OPEN pull request as CreatePR has just stored it
InitConc ==
    /\ backend = "memory"
    /\ teams = {1}
    /\ \E members \in [UserIDs -> BOOLEAN] :
         users = [u \in UserIDs |->
                     [exists |-> TRUE, TeamName |-> 1, IsActive |-> members[u]]]
    /\ \E authorID \in UserIDs :
         \E candidates \in Orderings(GetActiveTeamMembers(
                               [users |-> users], 1, authorID)) :
         \E perm \in Orderings(1..Len(candidates)) :
           LET reviewerIDs == selectReviewers(candidates, 2, perm)
           IN  /\ prs = [p \in PRIDs |->
                           IF p = 1
                           THEN [exists |-> TRUE, PullRequestName |-> 1,
                                 AuthorID |-> authorID,
                                 Status |-> PRStatusOpen, MergedAt |-> 0]
                           ELSE NoPR]
               /\ prReviewers = [p \in PRIDs |-> IF p = 1 THEN reviewerIDs ELSE <<>>]
               /\ last = [Call("CreatePR", 0, authorID, 1) EXCEPT !.PullRequestName = 1]
                           @@ [err |-> "", failed |-> ""]
                           @@ [NoResult EXCEPT !.AssignedReviewers = reviewerIDs,
                                               !.Status = PRStatusOpen,
                                               !.AuthorID = authorID]
    /\ procs = [i \in ProcIDs |-> IdleProc]
    /\ http = NoRequest(DefaultAdminToken, DefaultUserToken)

NextConc ==
    \E i \in ProcIDs :
        \/ \E prID \in SoloPRs : \E oldUserID \in UserIDs :
             ReassignReviewer_GetPRWithReviewers(i, prID, oldUserID)
        \/ ReassignReviewer_IsReviewerAssigned(i)
        \/ ReassignReviewer_GetUser(i)
        \/ ReassignReviewer_GetActiveTeamMembers(i)
        \/ ReassignReviewer_RemoveReviewer(i)
        \/ ReassignReviewer_AddReviewer(i)
        \/ ReassignReviewer_Return(i)

SpecConc == InitConc /\ [][NextConc]_vars

\* MergePR served by a goroutine in the same way: its first
\* GetPRWithReviewers, Repository.MergePR and the second GetPRWithReviewers
\* are three repository calls, each under r.mu on its own
MergePR_GetPRWithReviewers(i, prID) ==
    LET me == [procs[i] EXCEPT !.op = "MergePR", !.PullRequestID = prID]
    IN  /\ procs[i].pc = "idle"
        /\ Step(i,
                IF ~PRExists(DB, prID) THEN Returned(me, ErrPRNotFound, <<>>)
                ELSE IF MergePR_AlreadyMerged(prs[prID])
                THEN Returned(me, "", prReviewers[prID])
                ELSE [me EXCEPT !.pc = "MergePR", !.pr = prs[prID],
                                !.reviewers = prReviewers[prID]],
                prReviewers[prID])

MergePR_MergePR(i, now) ==
    LET me == procs[i]
    IN  /\ me.pc = "MergePR"
        /\ procs' = [procs EXCEPT ![i] =
                         Unlocked([me EXCEPT !.pc = "MergePR.GetPRWithReviewers"])]
        /\ prs' = Repo_MergePR(DB, me.PullRequestID, now).prs
        /\ UNCHANGED <<backend, teams, users, prReviewers, last, http>>

MergePR_Return(i) ==
    LET me == procs[i]
    IN  /\ me.pc = "MergePR.GetPRWithReviewers"
        /\ Step(i, Returned(me, "", prReviewers[me.PullRequestID]),
                prReviewers[me.PullRequestID])

\* every goroutine serves one MergePR or one ReassignReviewer
NextMergeRace ==
    \E i \in ProcIDs :
        \/ \E prID \in SoloPRs : MergePR_GetPRWithReviewers(i, prID)
        \/ \E now \in SoloTimes : MergePR_MergePR(i, now)
        \/ MergePR_Return(i)
        \/ \E prID \in SoloPRs : \E oldUserID \in UserIDs :
             ReassignReviewer_GetPRWithReviewers(i, prID, oldUserID)
        \/ ReassignReviewer_IsReviewerAssigned(i)
        \/ ReassignReviewer_GetUser(i)
        \/ ReassignReviewer_GetActiveTeamMembers(i)
        \/ ReassignReviewer_RemoveReviewer(i)
        \/ ReassignReviewer_AddReviewer(i)
        \/ ReassignReviewer_Return(i)

SpecMergeRace == InitConc /\ [][NextMergeRace]_vars

\* CreatePR and DeactivateTeamUsers served by goroutines in the same way
StepDB(i, proc, db) ==
    /\ procs' = [procs EXCEPT ![i] = Unlocked(proc)]
    /\ teams' = db.teams
    /\ users' = db.users
    /\ prs' = db.prs
    /\ prReviewers' = db.prReviewers
    /\ UNCHANGED <<backend, last, http>>

CreatePR_PRExists(i, prID, prName, authorID) ==
    LET me == [procs[i] EXCEPT !.op = "CreatePR", !.PullRequestID = prID,
                               !.AuthorID = authorID,
                               !.pr = [NoPR EXCEPT !.PullRequestName = prName]]
    IN  /\ procs[i].pc = "idle"
        /\ StepDB(i,
                  IF PRExists(DB, prID) THEN Returned(me, ErrPRAlreadyExists, <<>>)
                  ELSE [me EXCEPT !.pc = "CreatePR.GetUser"],
                  DB)

CreatePR_GetUser(i) ==
    LET me == procs[i]
    IN  /\ me.pc = "CreatePR.GetUser"
        /\ StepDB(i,
                  IF ~UserExists(DB, me.AuthorID) THEN Returned(me, ErrUserNotFound, <<>>)
                  ELSE [me EXCEPT !.pc = "CreatePR.GetActiveTeamMembers",
                                  !.TeamName = users[me.AuthorID].TeamName],
                  DB)

\* GetActiveTeamMembers and selectReviewers
CreatePR_GetActiveTeamMembers(i) ==
    LET me == procs[i]
    IN  /\ me.pc = "CreatePR.GetActiveTeamMembers"
        /\ \E candidates \in Orderings(GetActiveTeamMembers(DB, me.TeamName, me.AuthorID)) :
           \E perm \in Orderings(1..Len(candidates)) :
             StepDB(i, [me EXCEPT !.pc = "CreatePR.CreatePR",
                                  !.reviewers = selectReviewers(candidates, 2, perm)],
                    DB)

\* Repository.CreatePR, which looks for the id once more, and the response
CreatePR_CreatePR(i) ==
    LET me == procs[i]
    IN  /\ me.pc = "CreatePR.CreatePR"
        /\ backend = "memory"
        /\ IF PRExists(DB, me.PullRequestID)
           THEN StepDB(i, Returned(me, ErrPRAlreadyExists, <<>>), DB)
           ELSE StepDB(i, Returned(me, "", me.reviewers),
                       Repo_CreatePR(DB, me.PullRequestID, me.pr.PullRequestName,
                                     me.AuthorID, me.reviewers))

\* PostgresRepository.CreatePR inside the transaction of the call: the INSERT
\* of a stored id fails on the primary key and the error is returned as the
\* driver gave it; the INSERT of an id another open transaction has inserted
\* waits for that transaction; otherwise the rows stay with the transaction
CreatePR_Insert(i) ==
    LET me == procs[i]
    IN  /\ me.pc = "CreatePR.CreatePR"
        /\ backend = "postgres"
        /\ ~\E j \in ProcIDs \ {i} :
               procs[j].pc = "CreatePR.Commit"
               /\ procs[j].PullRequestID = me.PullRequestID
        /\ StepDB(i,
                  IF PRExists(DB, me.PullRequestID) THEN Returned(me, ErrDatabase, <<>>)
                  ELSE [me EXCEPT !.pc = "CreatePR.Commit"],
                  DB)

\* GormTransactionManager commits what fn wrote, and the response
CreatePR_Commit(i) ==
    LET me == procs[i]
    IN  /\ me.pc = "CreatePR.Commit"
        /\ StepDB(i, Returned(me, "", me.reviewers),
                  Repo_CreatePR(DB, me.PullRequestID, me.pr.PullRequestName,
                                me.AuthorID, me.reviewers))

\* getValidTeamUserIDsForDeactivation: GetTeam and the GetUser of
\* filterValidTeamUsers
DeactivateTeamUsers_GetTeam(i, teamName, userIDs) ==
    LET me == [procs[i] EXCEPT !.op = "DeactivateTeamUsers", !.TeamName = teamName,
                               !.UserIDs = userIDs]
        validUserIDs == filterValidTeamUsers(DB, teamName, userIDs)
    IN  /\ procs[i].pc = "idle"
        /\ StepDB(i,
                  IF ~TeamExists(DB, teamName) THEN Returned(me, ErrTeamNotFound, <<>>)
                  ELSE IF Len(validUserIDs) = 0 THEN Returned(me, ErrBadRequest, <<>>)
                  ELSE [me EXCEPT !.pc = "DeactivateTeamUsers.GetOpenPRsWithReviewers",
                                  !.validUserIDs = validUserIDs],
                  DB)

DeactivateTeamUsers_GetOpenPRsWithReviewers(i) ==
    LET me == procs[i]
    IN  /\ me.pc = "DeactivateTeamUsers.GetOpenPRsWithReviewers"
        /\ \E prOrder \in Orderings(GetOpenPRsWithReviewers(DB, me.validUserIDs)) :
           \E reviewersMap \in ReviewersMaps("memory", DB, Range(prOrder)) :
             StepDB(i, [me EXCEPT !.pc = "DeactivateTeamUsers.planReviewerReassignments",
                                  !.prs = prOrder,
                                  !.reviewersMap = reviewersMap],
                    DB)

\* planReviewerReassignments: the reads of the authors, the reviewers and
\* the candidates
DeactivateTeamUsers_planReviewerReassignments(i) ==
    LET me == procs[i]
    IN  /\ me.pc = "DeactivateTeamUsers.planReviewerReassignments"
        /\ \E plan \in planReviewerReassignments(DB, me.prs, me.reviewersMap,
                                                 createUserIDSet(me.validUserIDs), "") :
             StepDB(i, [me EXCEPT !.pc = "DeactivateTeamUsers.BulkReassignReviewers",
                                  !.reassignments =
                                      [k \in 1..Len(plan.reassignments) |->
                                         [PullRequestID |-> plan.reassignments[k].PullRequestID,
                                          OldReviewerID |-> plan.reassignments[k].OldReviewerID,
                                          NewReviewerID |-> plan.reassignments[k].NewReviewerID]]],
                    DB)

\* applyDeactivationChanges: BulkReassignReviewers when there is a record
DeactivateTeamUsers_BulkReassignReviewers(i) ==
    LET me == procs[i]
    IN  /\ me.pc = "DeactivateTeamUsers.BulkReassignReviewers"
        /\ StepDB(i, [me EXCEPT !.pc = "DeactivateTeamUsers.DeactivateUsers"],
                  BulkReassignReviewers("memory", DB, me.reassignments,
                                        Len(me.reassignments)))

\* DeactivateUsers and the response
DeactivateTeamUsers_DeactivateUsers(i) ==
    LET me == procs[i]
    IN  /\ me.pc = "DeactivateTeamUsers.DeactivateUsers"
        /\ StepDB(i, Returned(me, "", <<>>), DeactivateUsers(DB, me.validUserIDs))

\* the first goroutine serves one DeactivateTeamUsers, every other one
\* CreatePR or one ReassignReviewer
NextDeactivateRace ==
    \/ \E teamName \in WideTeams : \E userIDs \in WideBatchLists :
         DeactivateTeamUsers_GetTeam(1, teamName, userIDs)
    \/ DeactivateTeamUsers_GetOpenPRsWithReviewers(1)
    \/ DeactivateTeamUsers_planReviewerReassignments(1)
    \/ DeactivateTeamUsers_BulkReassignReviewers(1)
    \/ DeactivateTeamUsers_DeactivateUsers(1)
    \/ \E i \in ProcIDs \ {1} :
        \/ \E prID \in PRIDs : \E prName \in SoloNames : \E authorID \in Authors :
             CreatePR_PRExists(i, prID, prName, authorID)
        \/ CreatePR_GetUser(i)
        \/ CreatePR_GetActiveTeamMembers(i)
        \/ CreatePR_CreatePR(i)
        \/ \E prID \in SoloPRs : \E oldUserID \in UserIDs :
             ReassignReviewer_GetPRWithReviewers(i, prID, oldUserID)
        \/ ReassignReviewer_IsReviewerAssigned(i)
        \/ ReassignReviewer_GetUser(i)
        \/ ReassignReviewer_GetActiveTeamMembers(i)
        \/ ReassignReviewer_RemoveReviewer(i)
        \/ ReassignReviewer_AddReviewer(i)
        \/ ReassignReviewer_Return(i)

SpecDeactivateRace == InitConc /\ [][NextDeactivateRace]_vars

\* the users of the team the racing calls work on
RaceUsers == 1..NumRaceUsers

\* SetUserActive and CreateTeam served by goroutines in the same way
SetUserActive_GetUser(i, userID, isActive) ==
    LET me == [procs[i] EXCEPT !.op = "SetUserActive", !.OldUserID = userID,
                               !.IsActive = isActive]
    IN  /\ procs[i].pc = "idle"
        /\ StepDB(i,
                  IF ~UserExists(DB, userID) THEN Returned(me, ErrUserNotFound, <<>>)
                  ELSE [me EXCEPT !.pc = "SetUserActive.SetUserActive"],
                  DB)

SetUserActive_SetUserActive(i) ==
    LET me == procs[i]
    IN  /\ me.pc = "SetUserActive.SetUserActive"
        /\ IF ~UserExists(DB, me.OldUserID)
           THEN StepDB(i, Returned(me, ErrUserNotFound, <<>>), DB)
           ELSE StepDB(i, [me EXCEPT !.pc = "SetUserActive.GetUser"],
                       Repo_SetUserActive(DB, me.OldUserID, me.IsActive))

\* the second GetUser and the response
SetUserActive_Return(i) ==
    LET me == procs[i]
    IN  /\ me.pc = "SetUserActive.GetUser"
        /\ StepDB(i,
                  IF ~UserExists(DB, me.OldUserID) THEN Returned(me, ErrUserNotFound, <<>>)
                  ELSE Returned(me, "", <<>>),
                  DB)

CreateTeam_TeamExists(i, teamName, members) ==
    LET me == [procs[i] EXCEPT !.op = "CreateTeam", !.TeamName = teamName,
                               !.Members = members]
    IN  /\ procs[i].pc = "idle"
        /\ StepDB(i,
                  IF TeamExists(DB, teamName) THEN Returned(me, ErrTeamAlreadyExists, <<>>)
                  ELSE [me EXCEPT !.pc = "CreateTeam.CreateTeam"],
                  DB)

\* MemoryRepository.CreateTeam, which looks for the name once more, and the
\* response
CreateTeam_CreateTeam(i) ==
    LET me == procs[i]
    IN  /\ me.pc = "CreateTeam.CreateTeam"
        /\ IF TeamExists(DB, me.TeamName)
           THEN StepDB(i, Returned(me, ErrTeamAlreadyExists, <<>>), DB)
           ELSE StepDB(i, Returned(me, "", <<>>),
                       Repo_CreateTeam(DB, me.TeamName, me.Members))

\* ---------------------------------------------------------------- r.mu
\* the positions from which the next repository method takes r.mu.Lock();
\* from every other position it takes r.mu.RLock()
WritePCs ==
    {"RemoveReviewer", "AddReviewer", "MergePR", "CreatePR.CreatePR",
     "DeactivateTeamUsers.BulkReassignReviewers", "DeactivateTeamUsers.DeactivateUsers",
     "SetUserActive.SetUserActive", "CreateTeam.CreateTeam"}

\* the goroutine enters its next repository method: sync.RWMutex lets
\* readers in together and a writer in alone
Acquire(i) ==
    LET mode == IF procs[i].pc \in WritePCs THEN "Lock" ELSE "RLock"
    IN  /\ procs[i].pc # "done"
        /\ procs[i].mu = ""
        /\ \A j \in ProcIDs \ {i} :
               /\ procs[j].mu # "Lock"
               /\ mode = "Lock" => procs[j].mu = ""
        /\ procs' = [procs EXCEPT ![i].mu = mode]
        /\ UNCHANGED <<backend, teams, users, prs, prReviewers, last, http>>

\* the body of the repository method the goroutine has entered, with the
\* computation of the service that follows it
Method(i) ==
    \/ procs[i].mu # "" /\ \E teamName \in TeamNames : \E members \in AuthMemberLists :
          CreateTeam_TeamExists(i, teamName, members)
    \/ procs[i].mu # "" /\ CreateTeam_CreateTeam(i)
    \/ procs[i].mu # "" /\ \E userID \in RaceUsers : \E isActive \in BOOLEAN :
          SetUserActive_GetUser(i, userID, isActive)
    \/ procs[i].mu # "" /\ SetUserActive_SetUserActive(i)
    \/ procs[i].mu # "" /\ SetUserActive_Return(i)
    \/ procs[i].mu # "" /\ \E prID \in PRIDs : \E prName \in SoloNames : \E authorID \in Authors :
          CreatePR_PRExists(i, prID, prName, authorID)
    \/ procs[i].mu # "" /\ CreatePR_GetUser(i)
    \/ procs[i].mu # "" /\ CreatePR_GetActiveTeamMembers(i)
    \/ procs[i].mu # "" /\ CreatePR_CreatePR(i)
    \/ procs[i].mu # "" /\ \E prID \in SoloPRs : MergePR_GetPRWithReviewers(i, prID)
    \/ procs[i].mu # "" /\ \E now \in SoloTimes : MergePR_MergePR(i, now)
    \/ procs[i].mu # "" /\ MergePR_Return(i)
    \/ procs[i].mu # "" /\ \E prID \in SoloPRs : \E oldUserID \in RaceUsers :
          ReassignReviewer_GetPRWithReviewers(i, prID, oldUserID)
    \/ procs[i].mu # "" /\ ReassignReviewer_IsReviewerAssigned(i)
    \/ procs[i].mu # "" /\ ReassignReviewer_GetUser(i)
    \/ procs[i].mu # "" /\ ReassignReviewer_GetActiveTeamMembers(i)
    \/ procs[i].mu # "" /\ ReassignReviewer_RemoveReviewer(i)
    \/ procs[i].mu # "" /\ ReassignReviewer_AddReviewer(i)
    \/ procs[i].mu # "" /\ ReassignReviewer_Return(i)
    \/ procs[i].mu # "" /\ \E teamName \in WideTeams : \E userIDs \in BatchLists(RaceUsers) :
          DeactivateTeamUsers_GetTeam(i, teamName, userIDs)
    \/ procs[i].mu # "" /\ DeactivateTeamUsers_GetOpenPRsWithReviewers(i)
    \/ procs[i].mu # "" /\ DeactivateTeamUsers_planReviewerReassignments(i)
    \/ procs[i].mu # "" /\ DeactivateTeamUsers_BulkReassignReviewers(i)
    \/ procs[i].mu # "" /\ DeactivateTeamUsers_DeactivateUsers(i)

\* the stores concurrent CreatePR calls may find on either backend: one team
\* of the users 1..NumRaceUsers, active or not, and no pull request

InitCreateRace ==
    /\ backend \in {"memory", "postgres"}
    /\ teams = {1}
    /\ \E members \in [RaceUsers -> BOOLEAN] :
         users = [u \in UserIDs |->
                     IF u \in RaceUsers
                     THEN [exists |-> TRUE, TeamName |-> 1, IsActive |-> members[u]]
                     ELSE NoUser]
    /\ prs = [p \in PRIDs |-> NoPR]
    /\ prReviewers = [p \in PRIDs |-> <<>>]
    /\ last = NoCall
    /\ procs = [i \in ProcIDs |-> IdleProc]
    /\ http = NoRequest(DefaultAdminToken, DefaultUserToken)

\* every goroutine serves one CreatePR
NextCreateRace ==
    \E i \in ProcIDs :
        \/ \E prID \in PRIDs : \E prName \in PRNames : \E authorID \in RaceUsers :
             CreatePR_PRExists(i, prID, prName, authorID)
        \/ CreatePR_GetUser(i)
        \/ CreatePR_GetActiveTeamMembers(i)
        \/ CreatePR_CreatePR(i)
        \/ CreatePR_Insert(i)
        \/ CreatePR_Commit(i)

SpecCreateRace == InitCreateRace /\ [][NextCreateRace]_vars

\* MemoryRepository with one team of the active users 1..NumRaceUsers and one
\* OPEN pull request as CreatePR has stored it
InitLive ==
    /\ backend = "memory"
    /\ teams = {1}
    /\ users = [u \in UserIDs |->
                  IF u \in RaceUsers
                  THEN [exists |-> TRUE, TeamName |-> 1, IsActive |-> TRUE]
                  ELSE NoUser]
    /\ \E authorID \in RaceUsers :
         \E candidates \in Orderings(GetActiveTeamMembers(
                               [users |-> users], 1, authorID)) :
         \E perm \in Orderings(1..Len(candidates)) :
           /\ prs = [p \in PRIDs |->
                       IF p = 1
                       THEN [exists |-> TRUE, PullRequestName |-> 1,
                             AuthorID |-> authorID,
                             Status |-> PRStatusOpen, MergedAt |-> 0]
                       ELSE NoPR]
           /\ prReviewers = [p \in PRIDs |->
                               IF p = 1 THEN selectReviewers(candidates, 2, perm)
                               ELSE <<>>]
    /\ last = NoCall
    /\ procs = [i \in ProcIDs |-> IdleProc]
    /\ http = NoRequest(DefaultAdminToken, DefaultUserToken)

\* every goroutine serves one call, whichever
Serve(i) == Acquire(i) \/ Method(i)

NextLive == \E i \in ProcIDs : Serve(i)

\* the scheduler runs every goroutine that can run, and every repository
\* method it has entered returns
SpecLive == InitLive /\ [][NextLive]_vars /\ \A i \in ProcIDs : WF_vars(Serve(i))

\* ---------------------------------------------------------------- properties
OpenPR(p) == prs[p].exists /\ prs[p].Status = PRStatusOpen
MergedPR(p) == prs[p].exists /\ prs[p].Status = PRStatusMerged
NoDuplicates(s) == Cardinality(Range(s)) = Len(s)
Succeeded(op) == last.op = op /\ last.err = ""
StoredUnchanged == UNCHANGED <<teams, users, prs, prReviewers>>
NilResult(l) ==
    /\ l.AssignedReviewers = <<>> /\ l.ReplacedBy = 0 /\ l.Status = ""
    /\ l.MergedAt = 0 /\ l.AuthorID = 0 /\ l.Members = <<>> /\ l.TeamMembers = <<>>
    /\ l.IsActive = FALSE /\ l.UserTeamName = 0 /\ l.PullRequests = <<>>
    /\ l.DeactivatedUsers = <<>> /\ l.ReassignedPRs = <<>> /\ l.Reassignments = <<>>

\* C1: in every reachable state no pull request has its author among its
\* reviewers.
C1_AuthorNeverReviewer ==
    \A p \in PRIDs : prs[p].exists => prs[p].AuthorID \notin Range(prReviewers[p])

\* a reassignment succeeded on a PR whose author is an active member of the
\* replaced reviewer's team: only the author check kept the author out
C1_Witness ==
    /\ Succeeded("ReassignReviewer")
    /\ LET a == prs[last.PullRequestID].AuthorID
       IN  /\ users[a].IsActive
           /\ users[a].TeamName = users[last.UserID].TeamName

\* C2: in every reachable state of sequentially executed calls each user is
\* at most once among the reviewers of a pull request.
C2_ReviewerAtMostOnce ==
    \A p \in PRIDs : \A u \in UserIDs : Count(prReviewers[p], u) <= 1

\* a reassignment succeeded next to a staying reviewer who is an active
\* member of the replaced reviewer's team
C2_Witness ==
    /\ Succeeded("ReassignReviewer")
    /\ \E u \in Range(prReviewers[last.PullRequestID]) :
         /\ u # last.ReplacedBy
         /\ users[u].IsActive
         /\ users[u].TeamName = users[last.UserID].TeamName

\* C3: after a successful CreatePR the returned reviewers are the stored
\* ones, they are active members of the author's team other than the author,
\* there are min(2, number of such members) of them, without repetition, and
\* the pull request is stored OPEN.
C3_CreatePRReviewers ==
    Succeeded("CreatePR") =>
        LET p == last.PullRequestID
            a == last.UserID
            pool == {u \in UserIDs : /\ users[u].exists
                                     /\ users[u].TeamName = users[a].TeamName
                                     /\ users[u].IsActive
                                     /\ u # a}
        IN  /\ OpenPR(p)
            /\ last.Status = PRStatusOpen
            /\ prs[p].AuthorID = a
            /\ last.AssignedReviewers = prReviewers[p]
            /\ Range(prReviewers[p]) \subseteq pool
            /\ Len(prReviewers[p]) = Min(2, Cardinality(pool))
            /\ NoDuplicates(prReviewers[p])
            /\ a \notin Range(prReviewers[p])

\* a pull request was created while its author had three active teammates
C3_Witness ==
    /\ Succeeded("CreatePR")
    /\ Len(last.AssignedReviewers) = 2
    /\ Cardinality({u \in UserIDs : /\ users[u].exists
                                    /\ users[u].TeamName = users[last.UserID].TeamName
                                    /\ users[u].IsActive
                                    /\ u # last.UserID}) = 3

\* C4: a successful ReassignReviewer returns reviewers without the old one
\* and with the replacement exactly once; the replacement is not the author
\* and was no reviewer before the call; the returned reviewers are the
\* stored ones.
C4_ReassignResult ==
    [][(last'.op = "ReassignReviewer" /\ last'.err = "") =>
         LET p == last'.PullRequestID
             returned == last'.AssignedReviewers
         IN  /\ last'.UserID \notin Range(returned)
             /\ Count(returned, last'.ReplacedBy) = 1
             /\ last'.ReplacedBy # prs[p].AuthorID
             /\ last'.ReplacedBy \notin Range(prReviewers[p])
             /\ Range(returned) = Range(prReviewers'[p])
             /\ Len(returned) = Len(prReviewers'[p])]_vars

\* a reassignment succeeded on a pull request with two reviewers
C4_Witness ==
    /\ Succeeded("ReassignReviewer")
    /\ Len(last.AssignedReviewers) = 2
    /\ last.ReplacedBy \in Range(last.AssignedReviewers)

\* C5: no call changes the reviewers (or the record) of a MERGED pull request.
C5_MergedFrozen ==
    [][\A p \in PRIDs :
         MergedPR(p) => prReviewers'[p] = prReviewers[p] /\ prs'[p] = prs[p]]_vars

\* users were deactivated while one of them reviews a MERGED pull request
C5_Witness ==
    /\ Succeeded("DeactivateTeamUsers")
    /\ \E p \in PRIDs :
         MergedPR(p) /\ Range(prReviewers[p]) \cap Range(last.DeactivatedUsers) # {}

C7_DeactivateAtomic ==
    [][(/\ last'.op = "DeactivateTeamUsers"
        /\ last'.err # ""
        /\ last'.failed \in {"BulkReassignReviewers", "DeactivateUsers"})
       => StoredUnchanged]_vars

\* the bulk swap of a non-empty plan failed
C7_Witness ==
    /\ last.op = "DeactivateTeamUsers"
    /\ last.err = ErrDatabase
    /\ last.failed = "BulkReassignReviewers"

\* C8: when two ReassignReviewer calls on one pull request have both
\* returned without error, they did not replace the same reviewer, and the
\* pull request has as many reviewers as each call read, none of them twice.
C8_ConcurrentReassignSerial ==
    (/\ \A i \in ProcIDs : procs[i].pc = "done" /\ procs[i].err = ""
     /\ \A i, j \in ProcIDs : procs[i].PullRequestID = procs[j].PullRequestID)
    => /\ \A i, j \in ProcIDs : i # j => procs[i].OldUserID # procs[j].OldUserID
       /\ \A i \in ProcIDs :
            /\ NoDuplicates(prReviewers[procs[i].PullRequestID])
            /\ Len(prReviewers[procs[i].PullRequestID]) = Len(procs[i].reviewers)

\* C9: no call changes the team of an existing user, and only SetUserActive
\* and DeactivateTeamUsers change an existing user's activity flag.
C9_TeamAndFlagFixed ==
    [][\A u \in UserIDs :
         users[u].exists =>
            /\ users'[u].exists
            /\ users'[u].TeamName = users[u].TeamName
            /\ (users'[u].IsActive # users[u].IsActive
                  => last'.op \in {"SetUserActive", "DeactivateTeamUsers"})]_vars

\* C10: ReassignReviewer on a MERGED pull request fails with ErrPRMerged,
\* whatever the old reviewer id, returns nothing and changes nothing.
C10_ReassignOnMerged ==
    [][(last'.op = "ReassignReviewer" /\ MergedPR(last'.PullRequestID)) =>
         /\ last'.err = ErrPRMerged
         /\ NilResult(last')
         /\ StoredUnchanged]_vars

\* a reassignment on a MERGED pull request named a user who is not one of
\* its reviewers
C10_Witness ==
    /\ last.op = "ReassignReviewer"
    /\ last.err = ErrPRMerged
    /\ MergedPR(last.PullRequestID)
    /\ last.UserID \notin Range(prReviewers[last.PullRequestID])

\* the candidate pool of a reassignment of oldUserID on p, in the state
\* before the call: active members of the old reviewer's team, without the
\* author of p and without the reviewers of p
ReassignPool(p, oldUserID) ==
    {u \in UserIDs : /\ users[u].exists
                     /\ users[u].IsActive
                     /\ users[u].TeamName = users[oldUserID].TeamName
                     /\ u # prs[p].AuthorID
                     /\ u \notin Range(prReviewers[p])}

\* C11: ReassignReviewer succeeds exactly when the pull request exists, is
\* OPEN, the old reviewer is one of its reviewers and the candidate pool is
\* not empty; the replacement of a successful call is a member of the pool.
C11_ReassignIffPool ==
    [][last'.op = "ReassignReviewer" =>
         LET p == last'.PullRequestID
             old == last'.UserID
             pool == ReassignPool(p, old)
         IN  /\ last'.err = "" <=> /\ OpenPR(p)
                                   /\ old \in Range(prReviewers[p])
                                   /\ pool # {}
             /\ last'.err = "" => last'.ReplacedBy \in pool]_vars

\* a reassignment succeeded while the team of the replaced reviewer has an
\* inactive member and a member who stays reviewer: neither was eligible
C11_Witness ==
    /\ Succeeded("ReassignReviewer")
    /\ \E u, v \in UserIDs :
         /\ users[u].exists /\ ~users[u].IsActive
         /\ users[u].TeamName = users[last.UserID].TeamName
         /\ u # last.UserID
         /\ v \in Range(prReviewers[last.PullRequestID])
         /\ v # last.ReplacedBy

\* C12: a ReassignReviewer whose candidate pool is empty fails with
\* ErrNoActiveCandidate, returns nothing and changes no stored state.
C12_EmptyPoolNoOp ==
    [][(/\ last'.op = "ReassignReviewer"
        /\ OpenPR(last'.PullRequestID)
        /\ last'.UserID \in Range(prReviewers[last'.PullRequestID])
        /\ ReassignPool(last'.PullRequestID, last'.UserID) = {})
       => /\ last'.err = ErrNoActiveCandidate
          /\ NilResult(last')
          /\ StoredUnchanged]_vars

\* a reassignment found no candidate although an active user of another
\* team is neither author nor reviewer of the pull request
C12_Witness ==
    /\ last.op = "ReassignReviewer"
    /\ last.err = ErrNoActiveCandidate
    /\ last.UserID \in Range(prReviewers[last.PullRequestID])
    /\ \E u \in UserIDs :
         /\ users[u].exists /\ users[u].IsActive
         /\ users[u].TeamName # users[last.UserID].TeamName
         /\ u # prs[last.PullRequestID].AuthorID
         /\ u \notin Range(prReviewers[last.PullRequestID])

\* C13: ReassignReviewer on an OPEN pull request with an old reviewer id that
\* is not one of its reviewers fails with ErrReviewerNotAssigned, returns
\* nothing and changes no stored state.
C13_NotAssignedNoOp ==
    [][(/\ last'.op = "ReassignReviewer"
        /\ OpenPR(last'.PullRequestID)
        /\ last'.UserID \notin Range(prReviewers[last'.PullRequestID]))
       => /\ last'.err = ErrReviewerNotAssigned
          /\ NilResult(last')
          /\ StoredUnchanged]_vars

\* the author of an OPEN pull request with reviewers was named as the
\* reviewer to replace
C13_Witness ==
    /\ last.op = "ReassignReviewer"
    /\ last.err = ErrReviewerNotAssigned
    /\ OpenPR(last.PullRequestID)
    /\ last.UserID = prs[last.PullRequestID].AuthorID
    /\ prReviewers[last.PullRequestID] # <<>>

\* C14: ReassignReviewer reports the first violated precondition in the
\* order exists, OPEN, assigned; ErrNoActiveCandidate is returned only when
\* all three hold.
C14_PreconditionOrder ==
    [][last'.op = "ReassignReviewer" =>
         LET p == last'.PullRequestID
             assigned == last'.UserID \in Range(prReviewers[p])
         IN  /\ ~prs[p].exists => last'.err = ErrPRNotFound
             /\ MergedPR(p) => last'.err = ErrPRMerged
             /\ (OpenPR(p) /\ ~assigned) => last'.err = ErrReviewerNotAssigned
             /\ last'.err = ErrNoActiveCandidate => (OpenPR(p) /\ assigned)]_vars

\* a reassignment on a MERGED pull request named its author, who is not
\* assigned: two preconditions are violated at once
C14_Witness ==
    /\ last.op = "ReassignReviewer"
    /\ last.err = ErrPRMerged
    /\ MergedPR(last.PullRequestID)
    /\ last.UserID = prs[last.PullRequestID].AuthorID
    /\ prReviewers[last.PullRequestID] # <<>>

\* the call that has just returned (in the primed state) is a successful
\* DeactivateTeamUsers
DeactivatedNow == last'.op = "DeactivateTeamUsers" /\ last'.err = ""
\* in the state before it: the reviewers of p that the batch removes, those
\* that stay, and the users eligible as replacement on p
Batch == Range(last'.DeactivatedUsers)
RemovedOf(p) == Range(prReviewers[p]) \cap Batch
StayingOf(p) == Range(prReviewers[p]) \ Batch
Affected(p) == OpenPR(p) /\ RemovedOf(p) # {}
EligibleOf(p) ==
    {u \in UserIDs : /\ users[u].exists
                     /\ users[u].IsActive
                     /\ users[u].TeamName = last'.TeamName
                     /\ u # prs[p].AuthorID
                     /\ u \notin Range(prReviewers[p])
                     /\ u \notin Batch}

\* C15: every replacement DeactivateTeamUsers plans is, in the state before
\* the call, an active member of the removed reviewer's team, not the author
\* of the pull request, not one of its staying reviewers, not a replacement
\* already planned for it, and not a user of the batch; and it is stored.
C15_ReplacementEligible ==
    [][DeactivatedNow =>
         \A k \in 1..Len(last'.Reassignments) :
            LET rec == last'.Reassignments[k]
                p == rec.PullRequestID
                r == rec.NewReviewerID
            IN  r # 0 =>
                  /\ users[r].exists /\ users[r].IsActive
                  /\ users[rec.OldReviewerID].exists
                  /\ users[r].TeamName = users[rec.OldReviewerID].TeamName
                  /\ r # prs[p].AuthorID
                  /\ r \notin StayingOf(p)
                  /\ \A j \in 1..(k - 1) :
                        last'.Reassignments[j].PullRequestID = p
                           => last'.Reassignments[j].NewReviewerID # r
                  /\ r \notin Batch
                  /\ r \in Range(prReviewers'[p])]_vars

\* a deactivation of two users replaced a reviewer while the other user of
\* the batch reviewed nothing
C15_Witness ==
    /\ Succeeded("DeactivateTeamUsers")
    /\ Len(last.DeactivatedUsers) = 2
    /\ \E k \in 1..Len(last.Reassignments) : last.Reassignments[k].NewReviewerID # 0
    /\ \E u \in Range(last.DeactivatedUsers) :
         \A k \in 1..Len(last.Reassignments) : last.Reassignments[k].OldReviewerID # u

NoValidUserNow ==
    /\ last'.op = "DeactivateTeamUsers"
    /\ \A u \in Range(last'.UserIDs) :
          ~(users[u].exists /\ users[u].TeamName = last'.TeamName)

\* C18 as stated: a DeactivateTeamUsers without a valid user id fails with
\* ErrBadRequest and changes nothing, also when the team name names no team.
C18_NoValidUsersBadRequest ==
    [][NoValidUserNow => /\ last'.err = ErrBadRequest
                         /\ StoredUnchanged]_vars

\* C18 amended: a DeactivateTeamUsers without a valid user id changes
\* nothing and returns nothing; it fails with ErrBadRequest when the team
\* exists and with ErrTeamNotFound when it does not.
C18_NoValidUsersFails ==
    [][NoValidUserNow =>
         /\ last'.err = (IF last'.TeamName \in teams THEN ErrBadRequest
                         ELSE ErrTeamNotFound)
         /\ NilResult(last')
         /\ StoredUnchanged]_vars

\* a deactivation that named only a user of another team was refused
C18_Witness ==
    /\ last.op = "DeactivateTeamUsers"
    /\ last.err = ErrBadRequest
    /\ \E u \in Range(last.UserIDs) :
         /\ users[u].exists /\ users[u].IsActive
         /\ users[u].TeamName # last.TeamName

\* C19: the deactivated list of a successful DeactivateTeamUsers is the
\* requested list restricted to the ids that, before the call, exist and
\* belong to the team; those users are inactive afterwards and the record of
\* every other user is unchanged.
C19_DeactivatedExactlyValid ==
    [][DeactivatedNow =>
         LET valid == {u \in UserIDs : /\ users[u].exists
                                       /\ users[u].TeamName = last'.TeamName}
         IN  /\ last'.DeactivatedUsers = SelectSeq(last'.UserIDs, LAMBDA u : u \in valid)
             /\ \A u \in UserIDs :
                   IF u \in Range(last'.UserIDs) \cap valid
                   THEN users'[u] = [users[u] EXCEPT !.IsActive = FALSE]
                   ELSE users'[u] = users[u]]_vars

\* a deactivation dropped a requested active user of another team and left
\* an active member of the team that was not requested
C19_Witness ==
    /\ Succeeded("DeactivateTeamUsers")
    /\ Len(last.UserIDs) = 2
    /\ Len(last.DeactivatedUsers) = 1
    /\ \E u \in Range(last.UserIDs) :
         /\ users[u].exists /\ users[u].IsActive
         /\ users[u].TeamName # last.TeamName
    /\ \E u \in UserIDs \ Range(last.UserIDs) :
         /\ users[u].exists /\ users[u].IsActive
         /\ users[u].TeamName = last.TeamName

\* C20: CreatePR with the id of a stored pull request fails with
\* ErrPRAlreadyExists, whoever the author; with a fresh id and an unknown
\* author it fails with ErrUserNotFound; either way nothing is returned and
\* the stored state, the pull request of that id included, is unchanged.
C20_CreatePRErrors ==
    [][last'.op = "CreatePR" =>
         LET p == last'.PullRequestID
         IN  /\ prs[p].exists =>
                   /\ last'.err = ErrPRAlreadyExists
                   /\ NilResult(last')
                   /\ StoredUnchanged
             /\ (~prs[p].exists /\ ~users[last'.UserID].exists) =>
                   /\ last'.err = ErrUserNotFound
                   /\ NilResult(last')
                   /\ StoredUnchanged]_vars

\* a second CreatePR for a stored id came with another name and an unknown
\* author
C20_Witness ==
    /\ last.op = "CreatePR"
    /\ last.err = ErrPRAlreadyExists
    /\ ~users[last.UserID].exists
    /\ prs[last.PullRequestID].PullRequestName # last.PullRequestName
    /\ prReviewers[last.PullRequestID] # <<>>

\* C21: MergePR on a MERGED pull request returns no error and the state the
\* first call returned: a successful first call returns what it stored
\* (MERGED, the merge instant, the reviewers), nothing changes a MERGED pull
\* request afterwards, and a later call returns what is stored and stores
\* nothing.
C21_MergeIdempotent ==
    [][/\ \A q \in PRIDs :
            MergedPR(q) => prs'[q] = prs[q] /\ prReviewers'[q] = prReviewers[q]
       /\ last'.op = "MergePR" =>
            LET p == last'.PullRequestID
            IN  /\ (OpenPR(p) /\ last'.err = "") =>
                      /\ last'.Status = PRStatusMerged
                      /\ prs'[p].Status = PRStatusMerged
                      /\ last'.MergedAt = prs'[p].MergedAt
                      /\ last'.MergedAt = last'.Now
                      /\ Range(last'.AssignedReviewers) = Range(prReviewers'[p])
                      /\ Len(last'.AssignedReviewers) = Len(prReviewers'[p])
                /\ MergedPR(p) =>
                      /\ last'.err = ""
                      /\ last'.Status = PRStatusMerged
                      /\ last'.MergedAt = prs[p].MergedAt
                      /\ Range(last'.AssignedReviewers) = Range(prReviewers[p])
                      /\ Len(last'.AssignedReviewers) = Len(prReviewers[p])
                      /\ StoredUnchanged]_vars

\* MergePR was served at an instant other than the merge instant it
\* returned, for a pull request with a reviewer: not the first call
C21_Witness ==
    /\ Succeeded("MergePR")
    /\ last.Status = PRStatusMerged
    /\ last.Now # last.MergedAt
    /\ last.AssignedReviewers # <<>>

\* C22: MergePR on a stored OPEN pull request stores it MERGED and returns it
\* with its author and exactly the reviewers it had, and changes no team, no
\* user and no other pull request; MergePR on an id that is not stored fails
\* with ErrPRNotFound, returns nothing and changes nothing.
C22_MergeOpenOrUnknown ==
    [][last'.op = "MergePR" =>
         LET p == last'.PullRequestID
         IN  /\ OpenPR(p) =>
                   /\ last'.err = ""
                   /\ last'.Status = PRStatusMerged
                   /\ last'.AuthorID = prs[p].AuthorID
                   /\ Range(last'.AssignedReviewers) = Range(prReviewers[p])
                   /\ Len(last'.AssignedReviewers) = Len(prReviewers[p])
                   /\ prs'[p].exists
                   /\ prs'[p].Status = PRStatusMerged
                   /\ prs'[p].AuthorID = prs[p].AuthorID
                   /\ prs'[p].PullRequestName = prs[p].PullRequestName
                   /\ \A q \in PRIDs \ {p} : prs'[q] = prs[q]
                   /\ UNCHANGED <<teams, users, prReviewers>>
             /\ ~prs[p].exists =>
                   /\ last'.err = ErrPRNotFound
                   /\ NilResult(last')
                   /\ StoredUnchanged]_vars

\* a pull request with a reviewer was merged at the instant of the call
\* while another pull request with a reviewer is OPEN
C22_Witness ==
    /\ Succeeded("MergePR")
    /\ last.Now = last.MergedAt
    /\ last.AssignedReviewers # <<>>
    /\ \E q \in PRIDs \ {last.PullRequestID} : OpenPR(q) /\ prReviewers[q] # <<>>

\* C23: a pull request is stored OPEN by CreatePR, stays stored, never leaves
\* MERGED, and changes its status only in a MergePR call for its own id.
C23_StatusOnlyOpenToMerged ==
    [][\A p \in PRIDs :
         /\ (~prs[p].exists /\ prs'[p].exists) =>
               /\ prs'[p].Status = PRStatusOpen
               /\ last'.op = "CreatePR" /\ last'.PullRequestID = p
         /\ prs[p].exists =>
               /\ prs'[p].exists
               /\ prs'[p].Status \in {PRStatusOpen, PRStatusMerged}
               /\ MergedPR(p) => prs'[p].Status = PRStatusMerged
               /\ prs'[p].Status # prs[p].Status =>
                     last'.op = "MergePR" /\ last'.PullRequestID = p]_vars

\* CreatePR was refused for the id of a MERGED pull request while another
\* pull request is OPEN
C23_Witness ==
    /\ last.op = "CreatePR"
    /\ last.err = ErrPRAlreadyExists
    /\ MergedPR(last.PullRequestID)
    /\ \E q \in PRIDs \ {last.PullRequestID} : OpenPR(q)

\* the users GetActiveTeamMembers is to return for the last call
Selected ==
    {u \in UserIDs : /\ users[u].exists
                     /\ users[u].TeamName = last.TeamName
                     /\ users[u].IsActive
                     /\ u # last.UserID}

\* C24 as stated: the candidate query returns exactly the active users of
\* the team other than the excluded one, each once, writes nothing, and
\* fails with ErrTeamNotFound, and only so, when the team is not stored.
C24_SelectorTeamNotFound ==
    [][last'.op = "GetActiveTeamMembers" =>
         /\ StoredUnchanged
         /\ last'.err \in {"", ErrTeamNotFound}
         /\ last'.err = ErrTeamNotFound <=> last'.TeamName \notin teams
         /\ last'.err = "" =>
               /\ Range(last'.Members) = Selected'
               /\ NoDuplicates(last'.Members)]_vars

\* C24, amended: the candidate query never fails; it returns exactly the
\* active users of the team other than the excluded one, each once (none
\* for a team that is not stored), and writes nothing.
C24_SelectorExact ==
    [][last'.op = "GetActiveTeamMembers" =>
         /\ StoredUnchanged
         /\ last'.err = ""
         /\ Range(last'.Members) = Selected'
         /\ NoDuplicates(last'.Members)
         /\ last'.TeamName \notin teams => last'.Members = <<>>]_vars

\* the query returned one user of a team that also has the excluded user,
\* active, and an inactive user
C24_Witness ==
    /\ last.op = "GetActiveTeamMembers"
    /\ Len(last.Members) = 1
    /\ last.UserID # 0
    /\ users[last.UserID].TeamName = last.TeamName /\ users[last.UserID].IsActive
    /\ \E u \in UserIDs :
         users[u].exists /\ users[u].TeamName = last.TeamName /\ ~users[u].IsActive

C26_SetUserActiveFrame ==
    [][last'.op = "SetUserActive" =>
         LET u == last'.UserID
         IN  /\ users[u].exists =>
                   /\ last'.err = ""
                   /\ users' = [users EXCEPT ![u].IsActive = last'.ReqIsActive]
                   /\ last'.IsActive = last'.ReqIsActive
                   /\ last'.UserTeamName = users[u].TeamName
                   /\ UNCHANGED <<teams, prs, prReviewers>>
             /\ ~users[u].exists =>
                   /\ last'.err = ErrUserNotFound
                   /\ NilResult(last')
                   /\ StoredUnchanged]_vars

\* a reviewer of an OPEN pull request was set inactive and is still its
\* reviewer, next to an active user of another team
C26_Witness ==
    /\ Succeeded("SetUserActive")
    /\ ~last.ReqIsActive
    /\ ~users[last.UserID].IsActive
    /\ \E p \in PRIDs : OpenPR(p) /\ last.UserID \in Range(prReviewers[p])
    /\ \E v \in UserIDs :
         users[v].exists /\ users[v].IsActive
         /\ users[v].TeamName # users[last.UserID].TeamName

\* the header that carries token t: t as it is, or t after "Bearer "
Carries(authHeader, t) == authHeader \in {t, Bearer \o t}

\* C27: a request to an admin-only route is served exactly when the token of
\* its header is non-empty and is the admin token, one to a user-level route
\* exactly when the token is non-empty and is the admin or the user token;
\* and when the two tokens differ, an admin-only route answers a request
\* without header or with the user token with 401 and changes nothing, while
\* a user-level route serves a request with either token.
C27_TokenGates ==
    [][LET h == http'
           token == TrimPrefix(h.Authorization, Bearer)
       IN  /\ (h.path \in AdminPaths /\ h.Authorization # <<>>) =>
                 (h.status = "served" <=> (token # <<>> /\ token = h.adminToken))
           /\ (h.path \in UserPaths /\ h.Authorization # <<>>) =>
                 (h.status = "served"
                    <=> (token # <<>> /\ token \in {h.adminToken, h.userToken}))
           /\ (/\ h.adminToken # h.userToken
               /\ h.path \in AdminPaths
               /\ h.Authorization = <<>> \/ Carries(h.Authorization, h.userToken)) =>
                 /\ h.status = "401"
                 /\ StoredUnchanged
                 /\ last' = last
           /\ (/\ h.adminToken # h.userToken
               /\ h.path \in UserPaths
               /\ \/ Carries(h.Authorization, h.userToken)
                  \/ Carries(h.Authorization, h.adminToken)) =>
                 h.status = "served"]_vars

\* C28: a DeactivateTeamUsers in which a read of the planning phase fails
\* returns an error and changes nothing, and no DeactivateTeamUsers returns
\* success while a user it deactivated reviews an OPEN pull request.
C28_PlanningReadFailureFails ==
    [][last'.op = "DeactivateTeamUsers" =>
         /\ last'.failed \in PlanningReads => last'.err # "" /\ StoredUnchanged
         /\ last'.err = "" =>
               \A u \in Range(last'.DeactivatedUsers) : \A p \in PRIDs :
                   (prs'[p].exists /\ prs'[p].Status = PRStatusOpen)
                       => u \notin Range(prReviewers'[p])]_vars

\* C29: while a MergePR and a ReassignReviewer on one pull request run
\* concurrently, no step changes the reviewer set of a pull request that is
\* MERGED: a reassignment that read it OPEN has written before the merge or
\* does not write.
C29_MergeFreezesReviewers ==
    [][\A p \in PRIDs :
         MergedPR(p) => Range(prReviewers'[p]) = Range(prReviewers[p])]_vars

\* C30: when a DeactivateTeamUsers and a concurrent CreatePR or
\* ReassignReviewer have all returned, no user the batch deactivated is a
\* reviewer of an OPEN pull request.
C30_DeactivatedNotAssigned ==
    (\A i \in ProcIDs : procs[i].pc = "done")
    => \A i \in ProcIDs :
         (procs[i].op = "DeactivateTeamUsers" /\ procs[i].err = "")
         => \A u \in Range(procs[i].validUserIDs) : \A p \in PRIDs :
              OpenPR(p) => u \notin Range(prReviewers[p])

\* C31: when two CreatePR calls of stored authors for one id have run
\* concurrently and both returned, one succeeded and the other failed with
\* ErrPRAlreadyExists, and the pull request stored has the name, the author
\* and the reviewers of the call that succeeded.
C31_ConcurrentCreateOneWins ==
    \A i, j \in ProcIDs :
        (/\ i # j
         /\ procs[i].pc = "done" /\ procs[j].pc = "done"
         /\ procs[i].op = "CreatePR" /\ procs[j].op = "CreatePR"
         /\ procs[i].PullRequestID = procs[j].PullRequestID)
        => /\ procs[i].err = "" \/ procs[j].err = ""
           /\ procs[i].err = "" =>
                 /\ procs[j].err = ErrPRAlreadyExists
                 /\ prs[procs[i].PullRequestID].exists
                 /\ prs[procs[i].PullRequestID].PullRequestName
                        = procs[i].pr.PullRequestName
                 /\ prs[procs[i].PullRequestID].AuthorID = procs[i].AuthorID
                 /\ prReviewers[procs[i].PullRequestID] = procs[i].AssignedReviewers

\* C32: in every state the service calls reach one after another, every
\* reviewer of a pull request is a user of the team of its author.
C32_ReviewersOfAuthorsTeam ==
    \A p \in PRIDs :
        prs[p].exists =>
            \A r \in Range(prReviewers[p]) :
                /\ users[r].exists
                /\ users[prs[p].AuthorID].exists
                /\ users[r].TeamName = users[prs[p].AuthorID].TeamName

\* C33: every pull request has at most 2 reviewers in every state the
\* service calls reach one after another; a successful ReassignReviewer
\* keeps the number of reviewers of its pull request and DeactivateTeamUsers
\* raises the number of no pull request.
C33_AtMostTwoReviewers ==
    [][/\ \A p \in PRIDs : Len(prReviewers[p]) <= 2 /\ Len(prReviewers'[p]) <= 2
       /\ (last'.op = "ReassignReviewer" /\ last'.err = "") =>
             Len(prReviewers'[last'.PullRequestID]) = Len(prReviewers[last'.PullRequestID])
       /\ last'.op = "DeactivateTeamUsers" =>
             \A p \in PRIDs : Len(prReviewers'[p]) <= Len(prReviewers[p])]_vars

\* a deactivation replaced a reviewer of a pull request that has two
\* reviewers, while the team has more than two other active users
C33_Witness ==
    /\ Succeeded("DeactivateTeamUsers")
    /\ \E k \in DOMAIN last.Reassignments :
         /\ last.Reassignments[k].NewReviewerID # 0
         /\ Len(prReviewers[last.Reassignments[k].PullRequestID]) = 2
    /\ Cardinality({u \in UserIDs : users[u].exists}) = NumUsers

\* C34: a successful ReassignReviewer changes nothing but the reviewers of
\* its pull request, which become the reviewers it had without the old one
\* and with the replacement, a user that was not a reviewer; every other
\* reviewer list, every pull request, every user and every team stay as
\* they were.
C34_ReassignFrame ==
    [][(last'.op = "ReassignReviewer" /\ last'.err = "") =>
         LET p == last'.PullRequestID
             old == last'.UserID
             new == last'.ReplacedBy
         IN  /\ old \in Range(prReviewers[p])
             /\ new \notin Range(prReviewers[p])
             /\ Range(prReviewers'[p]) = (Range(prReviewers[p]) \ {old}) \cup {new}
             /\ \A q \in PRIDs \ {p} : prReviewers'[q] = prReviewers[q]
             /\ UNCHANGED <<prs, users, teams>>]_vars

\* a reviewer was replaced and is still active, and another pull request
\* has reviewers
C34_Witness ==
    /\ Succeeded("ReassignReviewer")
    /\ users[last.UserID].IsActive
    /\ \E q \in PRIDs \ {last.PullRequestID} : prs[q].exists /\ prReviewers[q] # <<>>

\* the users record k of the plan of the last call could not take: the
\* author, the reviewers that stay, the replacements of the earlier records
\* of the pull request, and the users of the batch
Ineligible(k) ==
    LET R == last'.Reassignments
        p == R[k].PullRequestID
        batch == Range(last'.DeactivatedUsers)
    IN  {prs[p].AuthorID} \cup (Range(prReviewers[p]) \ batch) \cup batch
        \cup {R[j].NewReviewerID : j \in {i \in 1..(k - 1) : R[i].PullRequestID = p}}

\* C35: every record of the plan of a successful DeactivateTeamUsers is
\* determined by the stored state and the enumeration the candidate query
\* returned for it: the enumeration lists the active users of the team of
\* the removed reviewer other than that reviewer, and the replacement is the
\* first of them, in that order, that is eligible, or none when none is.
C35_PlanFirstEligible ==
    [][(last'.op = "DeactivateTeamUsers" /\ last'.err = "") =>
         \A k \in DOMAIN last'.Reassignments :
            LET rec == last'.Reassignments[k]
                c == rec.Candidates
                ok == {i \in DOMAIN c : c[i] \notin Ineligible(k)}
            IN  /\ NoDuplicates(c)
                /\ Range(c) = {u \in UserIDs :
                                  /\ users[u].exists
                                  /\ users[u].TeamName = users[rec.OldReviewerID].TeamName
                                  /\ users[u].IsActive
                                  /\ u # rec.OldReviewerID}
                /\ IF ok = {} THEN rec.NewReviewerID = 0
                   ELSE \E i \in ok : /\ \A j \in ok : i <= j
                                      /\ rec.NewReviewerID = c[i]]_vars

\* a replacement was taken that is neither the first nor the last user of
\* an enumeration of three candidates or more
C35_Witness ==
    /\ Succeeded("DeactivateTeamUsers")
    /\ \E k \in DOMAIN last.Reassignments :
         LET rec == last.Reassignments[k]
         IN  /\ Len(rec.Candidates) >= 3
             /\ rec.NewReviewerID # 0
             /\ rec.NewReviewerID # rec.Candidates[1]
             /\ rec.NewReviewerID # rec.Candidates[Len(rec.Candidates)]

C37_EveryCallReturns ==
    \A i \in ProcIDs :
        (procs[i].mu # "" \/ procs[i].pc \notin {"idle", "done"})
            ~> (procs[i].pc = "done" /\ procs[i].mu = "")

\* a goroutine waits for r.mu.Lock() while another one is inside a method
C37_Witness ==
    \E i, j \in ProcIDs :
        /\ procs[i].pc \in WritePCs /\ procs[i].mu = ""
        /\ procs[j].mu # "" /\ procs[j].op = "DeactivateTeamUsers"

====
